---- MODULE Spec2Model ----
(***************************************************************************)
(* Model of the two command-line utilities of miaogu-notepad:              *)
(*   clean_comments.py  - CommentCleaner, the heuristic `//` stripper      *)
(*   update_version.py  - VersionUpdater                                   *)
(*                                                                         *)
(* A text is a sequence of characters.  A character is a one-character     *)
(* string; the backtick is written BACKTICK and a non-ASCII character is   *)
(* written "u" followed by its code point in hexadecimal ("u521b").        *)
(***************************************************************************)
EXTENDS Integers, Sequences, FiniteSets, TLC

\* ------------------------------------------------------------------------
\* Characters and the string operations of Python the code relies on
\* ------------------------------------------------------------------------

BACKTICK == "BACKTICK"

\* Python's None (string_char when no string is open).
None == "None"

\* the characters str.strip() removes and \s matches
WhiteSpace == {" ", "\t", "\n", "\r"}

Digits == {"0", "1", "2", "3", "4", "5", "6", "7", "8", "9"}

LowerLetters ==
  {"a", "b", "c", "d", "e", "f", "g", "h", "i", "j", "k", "l", "m",
   "n", "o", "p", "q", "r", "s", "t", "u", "v", "w", "x", "y", "z"}

\* str.lower() / re.IGNORECASE on one character
LowerOf ==
  ("A" :> "a") @@ ("B" :> "b") @@ ("C" :> "c") @@ ("D" :> "d") @@ ("E" :> "e") @@
  ("F" :> "f") @@ ("G" :> "g") @@ ("H" :> "h") @@ ("I" :> "i") @@ ("J" :> "j") @@
  ("K" :> "k") @@ ("L" :> "l") @@ ("M" :> "m") @@ ("N" :> "n") @@ ("O" :> "o") @@
  ("P" :> "p") @@ ("Q" :> "q") @@ ("R" :> "r") @@ ("S" :> "s") @@ ("T" :> "t") @@
  ("U" :> "u") @@ ("V" :> "v") @@ ("W" :> "w") @@ ("X" :> "x") @@ ("Y" :> "y") @@
  ("Z" :> "z")

UpperLetters == DOMAIN LowerOf

\* the ideographs that occur in the useless-phrase table (all are \w characters)
Ideographs ==
  {
    "u4e0a", "u4e0d", "u4e13", "u4e14", "u4e2d", "u4e32", "u4e3a", "u4e3b", "u4e48", "u4e49",
    "u4e4b", "u4e86", "u4e8e", "u4ea4", "u4ea7", "u4ec5", "u4ece", "u4ee5", "u4ef6", "u4efd",
    "u4f18", "u4f1a", "u4f20", "u4f4d", "u4f7f", "u4f9b", "u4f9d", "u4fdd", "u503c", "u505a",
    "u505c", "u50a8", "u5141", "u5143", "u5148", "u514b", "u514d", "u5165", "u5173", "u5176",
    "u5177", "u5178", "u518d", "u5199", "u51c6", "u51fa", "u51fd", "u5206", "u5217", "u521b",
    "u521d", "u5220", "u5224", "u5230", "u5236", "u5237", "u524d", "u5272", "u529b", "u529f",
    "u52a0", "u52a1", "u52a8", "u5305", "u5316", "u5339", "u5347", "u5373", "u5386", "u538b",
    "u539f", "u53cd", "u53d1", "u53d6", "u53d7", "u53d8", "u53e3", "u53e6", "u53ea", "u53ef",
    "u5408", "u540c", "u540e", "u5411", "u542b", "u542c", "u542f", "u5458", "u54c8", "u5546",
    "u5668", "u56de", "u56e0", "u56fe", "u5728", "u578b", "u57fa", "u5806", "u5904", "u5907",
    "u590d", "u5916", "u5931", "u5982", "u59cb", "u5b50", "u5b57", "u5b58", "u5b66", "u5b8c",
    "u5b9a", "u5b9e", "u5ba2", "u5bb6", "u5bf9", "u5bfc", "u5c04", "u5c0f", "u5c1d", "u5c31",
    "u5c5e", "u5de5", "u5dee", "u5df2", "u5e08", "u5e0c", "u5e74", "u5e76", "u5e7f", "u5e8f",
    "u5e93", "u5e94", "u5ea6", "u5ef6", "u5efa", "u5f00", "u5f02", "u5f0f", "u5f15", "u5f53",
    "u5f55", "u5f62", "u5f84", "u5f85", "u5f97", "u5faa", "u5fae", "u5fd9", "u5ffd", "u6001",
    "u6027", "u603b", "u6062", "u6210", "u6216", "u6233", "u6237", "u6240", "u624b", "u6253",
    "u6267", "u627e", "u6296", "u62e5", "u62ec", "u62f7", "u62fc", "u6301", "u6309", "u6362",
    "u636e", "u6392", "u63a5", "u63d0", "u641c", "u64a4", "u652f", "u6536", "u6548", "u6563",
    "u6570", "u65ad", "u65b0", "u65b9", "u65e0", "u65e2", "u65e5", "u65f6", "u6620", "u662f",
    "u663e", "u6682", "u66f4", "u66ff", "u6700", "u6708", "u6709", "u670d", "u671f", "u672a",
    "u673a", "u6743", "u675f", "u6761", "u6784", "u6790", "u679c", "u67b6", "u67d3", "u67e5",
    "u6808", "u6811", "u6837", "u6839", "u683c", "u68c0", "u6b21", "u6b62", "u6b63", "u6b64",
    "u6b65", "u6bb5", "u6bd4", "u6beb", "u6c42", "u6cd5", "u6d3b", "u6d41", "u6d45", "u6d4b",
    "u6d88", "u6df1", "u6dfb", "u6e05", "u6e32", "u6eda", "u6ee1", "u6ee4", "u70b9", "u7136",
    "u7167", "u7279", "u72b6", "u73af", "u73b0", "u7406", "u751f", "u7528", "u7531", "u7565",
    "u76d1", "u76ee", "u76f4", "u7740", "u7801", "u786e", "u788c", "u793a", "u7981", "u79bb",
    "u79d2", "u79fb", "u7a0b", "u7a0d", "u7a7a", "u7acb", "u7b26", "u7b49", "u7b97", "u7ba1",
    "u7c7b", "u7d20", "u7d22", "u7ea7", "u7eb3", "u7ebf", "u7ec4", "u7ec8", "u7ecf", "u7ed3",
    "u7ee7", "u7eea", "u7eed", "u7f13", "u7f16", "u7f29", "u7f6e", "u8005", "u800c", "u8054",
    "u80fd", "u81f4", "u8272", "u8282", "u83b7", "u85cf", "u884c", "u8868", "u88c1", "u8981",
    "u89c1", "u89d2", "u89e3", "u8ba1", "u8bb0", "u8bb8", "u8bba", "u8bbe", "u8bbf", "u8bc1",
    "u8bd5", "u8be2", "u8bef", "u8bf7", "u8bfb", "u8c03", "u8d1d", "u8d25", "u8d44", "u8d77",
    "u8d85", "u8db3", "u8dc3", "u8def", "u8df3", "u8f6c", "u8f7d", "u8f83", "u8f93", "u8fb9",
    "u8fbe", "u8fc7", "u8fd0", "u8fd4", "u8fd8", "u8fdb", "u8fde", "u8fdf", "u9000", "u9001",
    "u9012", "u904d", "u9075", "u907f", "u914d", "u91cd", "u91cf", "u949f", "u9500", "u9519",
    "u952e", "u95ed", "u95ee", "u95f2", "u95f4", "u961f", "u9632", "u964d", "u9650", "u9664",
    "u9686", "u968f", "u9690", "u96c6", "u9700", "u9759", "u975e", "u9879", "u987a", "u987e",
    "u9996", "u9a6c", "u9a8c", "u9ad8", "u9ed8"
  }

IsSpace(c) == c \in WhiteSpace

IsDigit(c) == c \in Digits

\* \w : letters, digits and the underscore
IsWord(c) == c \in LowerLetters \/ c \in UpperLetters \/ c \in Digits \/ c = "_" \/ c \in Ideographs

LowerChar(c) == IF c \in UpperLetters THEN LowerOf[c] ELSE c

\* str.lower()
lower(s) == [k \in 1..Len(s) |-> LowerChar(s[k])]

RECURSIVE lstrip(_)
lstrip(s) == IF s # <<>> /\ IsSpace(Head(s)) THEN lstrip(Tail(s)) ELSE s

RECURSIVE rstrip(_)
rstrip(s) == IF s # <<>> /\ IsSpace(s[Len(s)]) THEN rstrip(SubSeq(s, 1, Len(s) - 1)) ELSE s

\* str.strip()
strip(s) == rstrip(lstrip(s))

\* s[k-1:].startswith(lit), k a 1-based position
StartsWithAt(s, k, lit) ==
  /\ k + Len(lit) - 1 <= Len(s)
  /\ \A m \in 1..Len(lit) : s[k + m - 1] = lit[m]

\* lit in s
Contains(s, lit) == \E k \in 1..(Len(s) - Len(lit) + 1) : StartsWithAt(s, k, lit)

\* s[k-1:], k a 1-based position
From(s, k) == SubSeq(s, k, Len(s))

\* the position after a greedy \s* that starts at position k
RECURSIVE SkipSpace(_, _)
SkipSpace(s, k) == IF k <= Len(s) /\ IsSpace(s[k]) THEN SkipSpace(s, k + 1) ELSE k

\* `.*$` from position k: `.` matches no line feed, `$` matches at the end of
\* the text or before a final line feed
DotStarEnd(s, k) == \A m \in k..Len(s) : s[m] # "\n" \/ m = Len(s)

\* `^\s*//` : the position after the marker, 0 when there is no match
AfterMarker(s) ==
  LET a == SkipSpace(s, 1)
  IN  IF StartsWithAt(s, a, <<"/", "/">>) THEN a + 2 ELSE 0

\* `^\s*//\s*` : the position after the marker and the blanks that follow it
BodyStart(s) == IF AfterMarker(s) = 0 THEN 0 ELSE SkipSpace(s, AfterMarker(s))

\* ------------------------------------------------------------------------
\* CommentCleaner: the rule tables
\* ------------------------------------------------------------------------

\* self.preserve_patterns; every pattern starts with `^\s*//\s*`, the record
\* describes what follows: "tag" @\w+, "lit" a literal, "url" https?://,
\* "num" \d+\. , "lit_space" a literal and \s, "run" one or more of a character
preserve_patterns ==
  << [kind |-> "tag",       lit |-> <<"@">>],
     [kind |-> "lit",       lit |-> <<"e", "s", "l", "i", "n", "t", "-">>],
     [kind |-> "lit",       lit |-> <<"p", "r", "e", "t", "t", "i", "e", "r", "-">>],
     [kind |-> "lit",       lit |-> <<"T", "O", "D", "O", ":">>],
     [kind |-> "lit",       lit |-> <<"F", "I", "X", "M", "E", ":">>],
     [kind |-> "lit",       lit |-> <<"N", "O", "T", "E", ":">>],
     [kind |-> "lit",       lit |-> <<"H", "A", "C", "K", ":">>],
     [kind |-> "lit",       lit |-> <<"X", "X", "X", ":">>],
     [kind |-> "lit",       lit |-> <<"C", "o", "p", "y", "r", "i", "g", "h", "t">>],
     [kind |-> "lit",       lit |-> <<"L", "i", "c", "e", "n", "s", "e">>],
     [kind |-> "lit",       lit |-> <<"A", "u", "t", "h", "o", "r">>],
     [kind |-> "url",       lit |-> <<"h", "t", "t", "p">>],
     [kind |-> "num",       lit |-> <<".">>],
     [kind |-> "lit_space", lit |-> <<"-">>],
     [kind |-> "lit_space", lit |-> <<"*">>],
     [kind |-> "run",       lit |-> <<"=">>],
     [kind |-> "run",       lit |-> <<"-">>],
     [kind |-> "run",       lit |-> <<"*">>] >>

\* self.remove_patterns: "empty" is `^\s*//\s*$`, "general" is `^\s*//\s+\w+.*$`
remove_patterns == << "empty", "general" >>

\* important_keywords of should_preserve_comment
important_keywords ==
  << <<"i", "m", "p", "o", "r", "t", "a", "n", "t">>,
     <<"c", "r", "i", "t", "i", "c", "a", "l">>,
     <<"w", "a", "r", "n", "i", "n", "g">>,
     <<"d", "a", "n", "g", "e", "r">>,
     <<"s", "e", "c", "u", "r", "i", "t", "y">>,
     <<"p", "e", "r", "f", "o", "r", "m", "a", "n", "c", "e">>,
     <<"o", "p", "t", "i", "m", "i", "z", "a", "t", "i", "o", "n">>,
     <<"c", "o", "n", "f", "i", "g">>,
     <<"c", "o", "n", "f", "i", "g", "u", "r", "a", "t", "i", "o", "n">>,
     <<"a", "p", "i">>,
     <<"e", "n", "d", "p", "o", "i", "n", "t">>,
     <<"u", "r", "l">>,
     <<"p", "a", "t", "h">>,
     <<"r", "o", "u", "t", "e">>,
     <<"m", "i", "d", "d", "l", "e", "w", "a", "r", "e">> >>

\* `len(comment_content) < 2`
MinCommentLen == 2

\* useless_patterns of should_remove_comment: entry k is `^(A|B|..).*$`, given
\* by its alternatives
useless_patterns ==
  <<
    <<<<"u5bfc", "u5165">>, <<"i", "m", "p", "o", "r", "t">>>>,  \* line 120
    <<<<"u5bfc", "u51fa">>, <<"e", "x", "p", "o", "r", "t">>>>,  \* line 121
    <<<<"u5b9a", "u4e49">>, <<"d", "e", "f", "i", "n", "e">>>>,  \* line 122
    <<<<"u521b", "u5efa">>, <<"c", "r", "e", "a", "t", "e">>>>,  \* line 123
    <<<<"u521d", "u59cb", "u5316">>, <<"i", "n", "i", "t">>>>,  \* line 124
    <<<<"u8bbe", "u7f6e">>, <<"s", "e", "t">>>>,  \* line 125
    <<<<"u83b7", "u53d6">>, <<"g", "e", "t">>>>,  \* line 126
    <<<<"u5904", "u7406">>, <<"h", "a", "n", "d", "l", "e">>>>,  \* line 127
    <<<<"u6e32", "u67d3">>, <<"r", "e", "n", "d", "e", "r">>>>,  \* line 128
    <<<<"u7ec4", "u4ef6">>, <<"c", "o", "m", "p", "o", "n", "e", "n", "t">>>>,  \* line 129
    <<<<"u51fd", "u6570">>, <<"f", "u", "n", "c", "t", "i", "o", "n">>>>,  \* line 130
    <<<<"u65b9", "u6cd5">>, <<"m", "e", "t", "h", "o", "d">>>>,  \* line 131
    <<<<"u53d8", "u91cf">>, <<"v", "a", "r", "i", "a", "b", "l", "e">>>>,  \* line 132
    <<<<"u72b6", "u6001">>, <<"s", "t", "a", "t", "e">>>>,  \* line 133
    <<<<"u5c5e", "u6027">>, <<"p", "r", "o", "p">>>>,  \* line 134
    <<<<"u6837", "u5f0f">>, <<"s", "t", "y", "l", "e">>>>,  \* line 135
    <<<<"u7c7b">>, <<"c", "l", "a", "s", "s">>>>,  \* line 136
    <<<<"u63a5", "u53e3">>, <<"i", "n", "t", "e", "r", "f", "a", "c", "e">>>>,  \* line 137
    <<<<"u7c7b", "u578b">>, <<"t", "y", "p", "e">>>>,  \* line 138
    <<<<"u68c0", "u67e5">>, <<"c", "h", "e", "c", "k">>>>,  \* line 139
    <<<<"u5982", "u679c">>, <<"i", "f">>>>,  \* line 140
    <<<<"u4f7f", "u7528">>, <<"u", "s", "e">>>>,  \* line 141
    <<<<"u6dfb", "u52a0">>, <<"a", "d", "d">>>>,  \* line 142
    <<<<"u79fb", "u9664">>, <<"r", "e", "m", "o", "v", "e">>>>,  \* line 143
    <<<<"u66f4", "u65b0">>, <<"u", "p", "d", "a", "t", "e">>>>,  \* line 144
    <<<<"u6e05", "u7406">>, <<"c", "l", "e", "a", "n">>>>,  \* line 145
    <<<<"u4fdd", "u5b58">>, <<"s", "a", "v", "e">>>>,  \* line 146
    <<<<"u52a0", "u8f7d">>, <<"l", "o", "a", "d">>>>,  \* line 147
    <<<<"u76d1", "u542c">>, <<"l", "i", "s", "t", "e", "n">>>>,  \* line 148
    <<<<"u56de", "u9000">>, <<"f", "a", "l", "l", "b", "a", "c", "k">>>>,  \* line 149
    <<<<"u4f18", "u5148">>, <<"p", "r", "e", "f", "e", "r">>>>,  \* line 150
    <<<<"u907f", "u514d">>, <<"a", "v", "o", "i", "d">>>>,  \* line 151
    <<<<"u786e", "u4fdd">>, <<"e", "n", "s", "u", "r", "e">>>>,  \* line 152
    <<<<"u9632", "u6b62">>, <<"p", "r", "e", "v", "e", "n", "t">>>>,  \* line 153
    <<<<"u9650", "u5236">>, <<"l", "i", "m", "i", "t">>>>,  \* line 154
    <<<<"u9759", "u9ed8">>, <<"s", "i", "l", "e", "n", "t">>>>,  \* line 155
    <<<<"u5c1d", "u8bd5">>, <<"t", "r", "y">>>>,  \* line 156
    <<<<"u6784", "u5efa">>, <<"b", "u", "i", "l", "d">>>>,  \* line 157
    <<<<"u751f", "u6210">>, <<"g", "e", "n", "e", "r", "a", "t", "e">>>>,  \* line 158
    <<<<"u8f6c", "u6362">>, <<"c", "o", "n", "v", "e", "r", "t">>>>,  \* line 159
    <<<<"u89e3", "u6790">>, <<"p", "a", "r", "s", "e">>>>,  \* line 160
    <<<<"u683c", "u5f0f", "u5316">>, <<"f", "o", "r", "m", "a", "t">>>>,  \* line 161
    <<<<"u9a8c", "u8bc1">>, <<"v", "a", "l", "i", "d", "a", "t", "e">>>>,  \* line 162
    <<<<"u8ba1", "u7b97">>, <<"c", "a", "l", "c", "u", "l", "a", "t", "e">>>>,  \* line 163
    <<<<"u67e5", "u627e">>, <<"f", "i", "n", "d">>>>,  \* line 164
    <<<<"u641c", "u7d22">>, <<"s", "e", "a", "r", "c", "h">>>>,  \* line 165
    <<<<"u8fc7", "u6ee4">>, <<"f", "i", "l", "t", "e", "r">>>>,  \* line 166
    <<<<"u6392", "u5e8f">>, <<"s", "o", "r", "t">>>>,  \* line 167
    <<<<"u6620", "u5c04">>, <<"m", "a", "p">>>>,  \* line 168
    <<<<"u904d", "u5386">>, <<"i", "t", "e", "r", "a", "t", "e">>>>,  \* line 169
    <<<<"u5faa", "u73af">>, <<"l", "o", "o", "p">>>>,  \* line 170
    <<<<"u6761", "u4ef6">>, <<"c", "o", "n", "d", "i", "t", "i", "o", "n">>>>,  \* line 171
    <<<<"u5224", "u65ad">>, <<"j", "u", "d", "g", "e">>>>,  \* line 172
    <<<<"u6bd4", "u8f83">>, <<"c", "o", "m", "p", "a", "r", "e">>>>,  \* line 173
    <<<<"u5339", "u914d">>, <<"m", "a", "t", "c", "h">>>>,  \* line 174
    <<<<"u66ff", "u6362">>, <<"r", "e", "p", "l", "a", "c", "e">>>>,  \* line 175
    <<<<"u5206", "u5272">>, <<"s", "p", "l", "i", "t">>>>,  \* line 176
    <<<<"u5408", "u5e76">>, <<"m", "e", "r", "g", "e">>>>,  \* line 177
    <<<<"u8fde", "u63a5">>, <<"j", "o", "i", "n">>>>,  \* line 178
    <<<<"u62fc", "u63a5">>, <<"c", "o", "n", "c", "a", "t">>>>,  \* line 179
    <<<<"u590d", "u5236">>, <<"c", "o", "p", "y">>>>,  \* line 180
    <<<<"u514b", "u9686">>, <<"c", "l", "o", "n", "e">>>>,  \* line 181
    <<<<"u6df1", "u62f7", "u8d1d">>, <<"d", "e", "e", "p", " ", "c", "o", "p", "y">>>>,  \* line 182
    <<<<"u6d45", "u62f7", "u8d1d">>, <<"s", "h", "a", "l", "l", "o", "w", " ", "c", "o", "p", "y">>>>,  \* line 183
    <<<<"u5e8f", "u5217", "u5316">>, <<"s", "e", "r", "i", "a", "l", "i", "z", "e">>>>,  \* line 184
    <<<<"u53cd", "u5e8f", "u5217", "u5316">>, <<"d", "e", "s", "e", "r", "i", "a", "l", "i", "z", "e">>>>,  \* line 185
    <<<<"u7f16", "u7801">>, <<"e", "n", "c", "o", "d", "e">>>>,  \* line 186
    <<<<"u89e3", "u7801">>, <<"d", "e", "c", "o", "d", "e">>>>,  \* line 187
    <<<<"u538b", "u7f29">>, <<"c", "o", "m", "p", "r", "e", "s", "s">>>>,  \* line 188
    <<<<"u89e3", "u538b">>, <<"d", "e", "c", "o", "m", "p", "r", "e", "s", "s">>>>,  \* line 189
    <<<<"u7f13", "u5b58">>, <<"c", "a", "c", "h", "e">>>>,  \* line 190
    <<<<"u5b58", "u50a8">>, <<"s", "t", "o", "r", "e">>>>,  \* line 191
    <<<<"u8bfb", "u53d6">>, <<"r", "e", "a", "d">>>>,  \* line 192
    <<<<"u5199", "u5165">>, <<"w", "r", "i", "t", "e">>>>,  \* line 193
    <<<<"u5220", "u9664">>, <<"d", "e", "l", "e", "t", "e">>>>,  \* line 194
    <<<<"u91cd", "u7f6e">>, <<"r", "e", "s", "e", "t">>>>,  \* line 195
    <<<<"u6e05", "u7a7a">>, <<"c", "l", "e", "a", "r">>>>,  \* line 196
    <<<<"u5237", "u65b0">>, <<"r", "e", "f", "r", "e", "s", "h">>>>,  \* line 197
    <<<<"u91cd", "u65b0", "u52a0", "u8f7d">>, <<"r", "e", "l", "o", "a", "d">>>>,  \* line 198
    <<<<"u91cd", "u65b0", "u6e32", "u67d3">>, <<"r", "e", "-", "r", "e", "n", "d", "e", "r">>>>,  \* line 199
    <<<<"u91cd", "u65b0", "u8ba1", "u7b97">>, <<"r", "e", "c", "a", "l", "c", "u", "l", "a", "t", "e">>>>,  \* line 200
    <<<<"u91cd", "u65b0", "u6784", "u5efa">>, <<"r", "e", "b", "u", "i", "l", "d">>>>,  \* line 201
    <<<<"u91cd", "u65b0", "u521d", "u59cb", "u5316">>, <<"r", "e", "i", "n", "i", "t", "i", "a", "l", "i", "z", "e">>>>,  \* line 202
    <<<<"u91cd", "u65b0", "u8bbe", "u7f6e">>, <<"r", "e", "s", "e", "t">>>>,  \* line 203
    <<<<"u91cd", "u65b0", "u914d", "u7f6e">>, <<"r", "e", "c", "o", "n", "f", "i", "g", "u", "r", "e">>>>,  \* line 204
    <<<<"u91cd", "u65b0", "u8fde", "u63a5">>, <<"r", "e", "c", "o", "n", "n", "e", "c", "t">>>>,  \* line 205
    <<<<"u91cd", "u65b0", "u542f", "u52a8">>, <<"r", "e", "s", "t", "a", "r", "t">>>>,  \* line 206
    <<<<"u91cd", "u65b0", "u5f00", "u59cb">>, <<"r", "e", "s", "t", "a", "r", "t">>>>,  \* line 207
    <<<<"u91cd", "u65b0", "u6267", "u884c">>, <<"r", "e", "-", "e", "x", "e", "c", "u", "t", "e">>>>,  \* line 208
    <<<<"u91cd", "u65b0", "u8fd0", "u884c">>, <<"r", "e", "-", "r", "u", "n">>>>,  \* line 209
    <<<<"u91cd", "u65b0", "u8c03", "u7528">>, <<"r", "e", "-", "c", "a", "l", "l">>>>,  \* line 210
    <<<<"u91cd", "u65b0", "u53d1", "u9001">>, <<"r", "e", "s", "e", "n", "d">>>>,  \* line 211
    <<<<"u91cd", "u65b0", "u8bf7", "u6c42">>, <<"r", "e", "-", "r", "e", "q", "u", "e", "s", "t">>>>,  \* line 212
    <<<<"u91cd", "u65b0", "u83b7", "u53d6">>, <<"r", "e", "-", "f", "e", "t", "c", "h">>>>,  \* line 213
    <<<<"u91cd", "u65b0", "u67e5", "u8be2">>, <<"r", "e", "-", "q", "u", "e", "r", "y">>>>,  \* line 214
    <<<<"u91cd", "u65b0", "u641c", "u7d22">>, <<"r", "e", "-", "s", "e", "a", "r", "c", "h">>>>,  \* line 215
    <<<<"u91cd", "u65b0", "u67e5", "u627e">>, <<"r", "e", "-", "f", "i", "n", "d">>>>,  \* line 216
    <<<<"u91cd", "u65b0", "u5339", "u914d">>, <<"r", "e", "-", "m", "a", "t", "c", "h">>>>,  \* line 217
    <<<<"u91cd", "u65b0", "u9a8c", "u8bc1">>, <<"r", "e", "-", "v", "a", "l", "i", "d", "a", "t", "e">>>>,  \* line 218
    <<<<"u91cd", "u65b0", "u68c0", "u67e5">>, <<"r", "e", "-", "c", "h", "e", "c", "k">>>>,  \* line 219
    <<<<"u91cd", "u65b0", "u6d4b", "u8bd5">>, <<"r", "e", "-", "t", "e", "s", "t">>>>,  \* line 220
    <<<<"u91cd", "u65b0", "u5c1d", "u8bd5">>, <<"r", "e", "t", "r", "y">>>>,  \* line 221
    <<<<"A", "P", "I", "u8bf7", "u6c42">>, <<"A", "P", "I", " ", "r", "e", "q", "u", "e", "s", "t">>>>,  \* line 222
    <<<<"u8282", "u6d41">>, <<"t", "h", "r", "o", "t", "t", "l", "e">>>>,  \* line 223
    <<<<"u9632", "u6296">>, <<"d", "e", "b", "o", "u", "n", "c", "e">>>>,  \* line 224
    <<<<"u5ef6", "u8fdf">>, <<"d", "e", "l", "a", "y">>>>,  \* line 225
    <<<<"u5b9a", "u65f6", "u5668">>, <<"t", "i", "m", "e", "r">>>>,  \* line 226
    <<<<"u8ba1", "u65f6", "u5668">>, <<"c", "o", "u", "n", "t", "e", "r">>>>,  \* line 227
    <<<<"u65f6", "u95f4", "u6233">>, <<"t", "i", "m", "e", "s", "t", "a", "m", "p">>>>,  \* line 228
    <<<<"u65e5", "u671f">>, <<"d", "a", "t", "e">>>>,  \* line 229
    <<<<"u65f6", "u95f4">>, <<"t", "i", "m", "e">>>>,  \* line 230
    <<<<"u5e74">>, <<"y", "e", "a", "r">>>>,  \* line 231
    <<<<"u6708">>, <<"m", "o", "n", "t", "h">>>>,  \* line 232
    <<<<"u65e5">>, <<"d", "a", "y">>>>,  \* line 233
    <<<<"u5c0f", "u65f6">>, <<"h", "o", "u", "r">>>>,  \* line 234
    <<<<"u5206", "u949f">>, <<"m", "i", "n", "u", "t", "e">>>>,  \* line 235
    <<<<"u79d2">>, <<"s", "e", "c", "o", "n", "d">>>>,  \* line 236
    <<<<"u6beb", "u79d2">>, <<"m", "i", "l", "l", "i", "s", "e", "c", "o", "n", "d">>>>,  \* line 237
    <<<<"u5fae", "u79d2">>, <<"m", "i", "c", "r", "o", "s", "e", "c", "o", "n", "d">>>>,  \* line 238
    <<<<"u7eb3", "u79d2">>, <<"n", "a", "n", "o", "s", "e", "c", "o", "n", "d">>>>,  \* line 239
    <<<<"u5373", "u4f7f">>, <<"e", "v", "e", "n">>>>,  \* line 240
    <<<<"u65e0", "u8bba">>, <<"r", "e", "g", "a", "r", "d", "l", "e", "s", "s">>>>,  \* line 241
    <<<<"u4e0d", "u7ba1">>, <<"n", "o", " ", "m", "a", "t", "t", "e", "r">>>>,  \* line 242
    <<<<"u5f53">>, <<"w", "h", "e", "n">>>>,  \* line 243
    <<<<"u5728">>, <<"a", "t">>, <<"i", "n">>>>,  \* line 244
    <<<<"u4ece">>, <<"f", "r", "o", "m">>>>,  \* line 245
    <<<<"u5230">>, <<"t", "o">>>>,  \* line 246
    <<<<"u5411">>, <<"t", "o", "w", "a", "r", "d", "s">>>>,  \* line 247
    <<<<"u5bf9", "u4e8e">>, <<"f", "o", "r">>>>,  \* line 248
    <<<<"u5173", "u4e8e">>, <<"a", "b", "o", "u", "t">>>>,  \* line 249
    <<<<"u57fa", "u4e8e">>, <<"b", "a", "s", "e", "d", " ", "o", "n">>>>,  \* line 250
    <<<<"u6839", "u636e">>, <<"a", "c", "c", "o", "r", "d", "i", "n", "g", " ", "t", "o">>>>,  \* line 251
    <<<<"u4f9d", "u636e">>, <<"b", "a", "s", "e", "d", " ", "o", "n">>>>,  \* line 252
    <<<<"u6309", "u7167">>, <<"a", "c", "c", "o", "r", "d", "i", "n", "g", " ", "t", "o">>>>,  \* line 253
    <<<<"u9075", "u5faa">>, <<"f", "o", "l", "l", "o", "w">>>>,  \* line 254
    <<<<"u7b26", "u5408">>, <<"c", "o", "n", "f", "o", "r", "m", " ", "t", "o">>>>,  \* line 255
    <<<<"u6ee1", "u8db3">>, <<"s", "a", "t", "i", "s", "f", "y">>>>,  \* line 256
    <<<<"u8fbe", "u5230">>, <<"r", "e", "a", "c", "h">>>>,  \* line 257
    <<<<"u5b9e", "u73b0">>, <<"a", "c", "h", "i", "e", "v", "e">>>>,  \* line 258
    <<<<"u5b8c", "u6210">>, <<"c", "o", "m", "p", "l", "e", "t", "e">>>>,  \* line 259
    <<<<"u7ed3", "u675f">>, <<"e", "n", "d">>>>,  \* line 260
    <<<<"u5f00", "u59cb">>, <<"s", "t", "a", "r", "t">>>>,  \* line 261
    <<<<"u542f", "u52a8">>, <<"l", "a", "u", "n", "c", "h">>>>,  \* line 262
    <<<<"u505c", "u6b62">>, <<"s", "t", "o", "p">>>>,  \* line 263
    <<<<"u6682", "u505c">>, <<"p", "a", "u", "s", "e">>>>,  \* line 264
    <<<<"u7ee7", "u7eed">>, <<"c", "o", "n", "t", "i", "n", "u", "e">>>>,  \* line 265
    <<<<"u6062", "u590d">>, <<"r", "e", "s", "u", "m", "e">>>>,  \* line 266
    <<<<"u4e2d", "u65ad">>, <<"i", "n", "t", "e", "r", "r", "u", "p", "t">>>>,  \* line 267
    <<<<"u53d6", "u6d88">>, <<"c", "a", "n", "c", "e", "l">>>>,  \* line 268
    <<<<"u7ec8", "u6b62">>, <<"t", "e", "r", "m", "i", "n", "a", "t", "e">>>>,  \* line 269
    <<<<"u9000", "u51fa">>, <<"e", "x", "i", "t">>>>,  \* line 270
    <<<<"u8fd4", "u56de">>, <<"r", "e", "t", "u", "r", "n">>>>,  \* line 271
    <<<<"u8df3", "u8f6c">>, <<"j", "u", "m", "p">>>>,  \* line 272
    <<<<"u8df3", "u8fc7">>, <<"s", "k", "i", "p">>>>,  \* line 273
    <<<<"u5ffd", "u7565">>, <<"i", "g", "n", "o", "r", "e">>>>,  \* line 274
    <<<<"u6392", "u9664">>, <<"e", "x", "c", "l", "u", "d", "e">>>>,  \* line 275
    <<<<"u5305", "u542b">>, <<"i", "n", "c", "l", "u", "d", "e">>>>,  \* line 276
    <<<<"u5305", "u62ec">>, <<"i", "n", "c", "l", "u", "d", "i", "n", "g">>>>,  \* line 277
    <<<<"u9664", "u4e86">>, <<"e", "x", "c", "e", "p", "t">>>>,  \* line 278
    <<<<"u9664", "u975e">>, <<"u", "n", "l", "e", "s", "s">>>>,  \* line 279
    <<<<"u53ea", "u6709">>, <<"o", "n", "l", "y">>>>,  \* line 280
    <<<<"u4ec5">>, <<"o", "n", "l", "y">>>>,  \* line 281
    <<<<"u4ec5", "u4ec5">>, <<"j", "u", "s", "t">>>>,  \* line 282
    <<<<"u53ea", "u662f">>, <<"j", "u", "s", "t">>>>,  \* line 283
    <<<<"u53ea", "u9700">>, <<"j", "u", "s", "t", " ", "n", "e", "e", "d">>>>,  \* line 284
    <<<<"u53ea", "u8981">>, <<"a", "s", " ", "l", "o", "n", "g", " ", "a", "s">>>>,  \* line 285
    <<<<"u53ea", "u80fd">>, <<"c", "a", "n", " ", "o", "n", "l", "y">>>>,  \* line 286
    <<<<"u53ea", "u4f1a">>, <<"w", "i", "l", "l", " ", "o", "n", "l", "y">>>>,  \* line 287
    <<<<"u53ea", "u5728">>, <<"o", "n", "l", "y", " ", "i", "n">>>>,  \* line 288
    <<<<"u53ea", "u5bf9">>, <<"o", "n", "l", "y", " ", "f", "o", "r">>>>,  \* line 289
    <<<<"u53ea", "u7528">>, <<"o", "n", "l", "y", " ", "u", "s", "e">>>>,  \* line 290
    <<<<"u53ea", "u652f", "u6301">>, <<"o", "n", "l", "y", " ", "s", "u", "p", "p", "o", "r", "t">>>>,  \* line 291
    <<<<"u53ea", "u5141", "u8bb8">>, <<"o", "n", "l", "y", " ", "a", "l", "l", "o", "w">>>>,  \* line 292
    <<<<"u53ea", "u63a5", "u53d7">>, <<"o", "n", "l", "y", " ", "a", "c", "c", "e", "p", "t">>>>,  \* line 293
    <<<<"u53ea", "u5904", "u7406">>, <<"o", "n", "l", "y", " ", "h", "a", "n", "d", "l", "e">>>>,  \* line 294
    <<<<"u53ea", "u663e", "u793a">>, <<"o", "n", "l", "y", " ", "s", "h", "o", "w">>>>,  \* line 295
    <<<<"u53ea", "u8fd4", "u56de">>, <<"o", "n", "l", "y", " ", "r", "e", "t", "u", "r", "n">>>>,  \* line 296
    <<<<"u53ea", "u4f20", "u9012">>, <<"o", "n", "l", "y", " ", "p", "a", "s", "s">>>>,  \* line 297
    <<<<"u76f4", "u63a5">>, <<"d", "i", "r", "e", "c", "t", "l", "y">>>>,  \* line 298
    <<<<"u95f4", "u63a5">>, <<"i", "n", "d", "i", "r", "e", "c", "t", "l", "y">>>>,  \* line 299
    <<<<"u7acb", "u5373">>, <<"i", "m", "m", "e", "d", "i", "a", "t", "e", "l", "y">>>>,  \* line 300
    <<<<"u9a6c", "u4e0a">>, <<"r", "i", "g", "h", "t", " ", "a", "w", "a", "y">>>>,  \* line 301
    <<<<"u7a0d", "u540e">>, <<"l", "a", "t", "e", "r">>>>,  \* line 302
    <<<<"u4e4b", "u540e">>, <<"a", "f", "t", "e", "r">>>>,  \* line 303
    <<<<"u4e4b", "u524d">>, <<"b", "e", "f", "o", "r", "e">>>>,  \* line 304
    <<<<"u540c", "u65f6">>, <<"m", "e", "a", "n", "w", "h", "i", "l", "e">>>>,  \* line 305
    <<<<"u7136", "u540e">>, <<"t", "h", "e", "n">>>>,  \* line 306
    <<<<"u63a5", "u7740">>, <<"n", "e", "x", "t">>>>,  \* line 307
    <<<<"u6700", "u540e">>, <<"f", "i", "n", "a", "l", "l", "y">>>>,  \* line 308
    <<<<"u9996", "u5148">>, <<"f", "i", "r", "s", "t">>>>,  \* line 309
    <<<<"u5176", "u6b21">>, <<"s", "e", "c", "o", "n", "d">>>>,  \* line 310
    <<<<"u518d", "u6b21">>, <<"a", "g", "a", "i", "n">>>>,  \* line 311
    <<<<"u53e6", "u5916">>, <<"a", "d", "d", "i", "t", "i", "o", "n", "a", "l", "l", "y">>>>,  \* line 312
    <<<<"u6b64", "u5916">>, <<"b", "e", "s", "i", "d", "e", "s">>>>,  \* line 313
    <<<<"u800c", "u4e14">>, <<"m", "o", "r", "e", "o", "v", "e", "r">>>>,  \* line 314
    <<<<"u5e76", "u4e14">>, <<"a", "n", "d">>>>,  \* line 315
    <<<<"u6216", "u8005">>, <<"o", "r">>>>,  \* line 316
    <<<<"u8981", "u4e48">>, <<"e", "i", "t", "h", "e", "r">>>>,  \* line 317
    <<<<"u65e2", "u7136">>, <<"s", "i", "n", "c", "e">>>>,  \* line 318
    <<<<"u56e0", "u4e3a">>, <<"b", "e", "c", "a", "u", "s", "e">>>>,  \* line 319
    <<<<"u7531", "u4e8e">>, <<"d", "u", "e", " ", "t", "o">>>>,  \* line 320
    <<<<"u6240", "u4ee5">>, <<"s", "o">>>>,  \* line 321
    <<<<"u56e0", "u6b64">>, <<"t", "h", "e", "r", "e", "f", "o", "r", "e">>>>,  \* line 322
    <<<<"u7ed3", "u679c">>, <<"r", "e", "s", "u", "l", "t">>>>,  \* line 323
    <<<<"u5bfc", "u81f4">>, <<"c", "a", "u", "s", "e">>>>,  \* line 324
    <<<<"u5f15", "u8d77">>, <<"t", "r", "i", "g", "g", "e", "r">>>>,  \* line 325
    <<<<"u4ea7", "u751f">>, <<"g", "e", "n", "e", "r", "a", "t", "e">>>>,  \* line 326
    <<<<"u5f62", "u6210">>, <<"f", "o", "r", "m">>>>,  \* line 327
    <<<<"u6784", "u6210">>, <<"c", "o", "n", "s", "t", "i", "t", "u", "t", "e">>>>,  \* line 328
    <<<<"u7ec4", "u6210">>, <<"c", "o", "m", "p", "o", "s", "e">>>>,  \* line 329
    <<<<"u5305", "u542b">>, <<"c", "o", "n", "t", "a", "i", "n">>>>,  \* line 330
    <<<<"u62e5", "u6709">>, <<"h", "a", "v", "e">>>>,  \* line 331
    <<<<"u5177", "u6709">>, <<"p", "o", "s", "s", "e", "s", "s">>>>,  \* line 332
    <<<<"u5b58", "u5728">>, <<"e", "x", "i", "s", "t">>>>,  \* line 333
    <<<<"u51fa", "u73b0">>, <<"a", "p", "p", "e", "a", "r">>>>,  \* line 334
    <<<<"u53d1", "u751f">>, <<"h", "a", "p", "p", "e", "n">>>>,  \* line 335
    <<<<"u53d1", "u73b0">>, <<"d", "i", "s", "c", "o", "v", "e", "r">>>>,  \* line 336
    <<<<"u627e", "u5230">>, <<"f", "o", "u", "n", "d">>>>,  \* line 337
    <<<<"u83b7", "u5f97">>, <<"o", "b", "t", "a", "i", "n">>>>,  \* line 338
    <<<<"u5f97", "u5230">>, <<"g", "e", "t">>>>,  \* line 339
    <<<<"u6536", "u5230">>, <<"r", "e", "c", "e", "i", "v", "e">>>>,  \* line 340
    <<<<"u63a5", "u6536">>, <<"r", "e", "c", "e", "i", "v", "e">>>>,  \* line 341
    <<<<"u53d1", "u9001">>, <<"s", "e", "n", "d">>>>,  \* line 342
    <<<<"u4f20", "u9001">>, <<"t", "r", "a", "n", "s", "m", "i", "t">>>>,  \* line 343
    <<<<"u4f20", "u9012">>, <<"p", "a", "s", "s">>>>,  \* line 344
    <<<<"u4f20", "u8f93">>, <<"t", "r", "a", "n", "s", "f", "e", "r">>>>,  \* line 345
    <<<<"u8f93", "u5165">>, <<"i", "n", "p", "u", "t">>>>,  \* line 346
    <<<<"u8f93", "u51fa">>, <<"o", "u", "t", "p", "u", "t">>>>,  \* line 347
    <<<<"u5bfc", "u5165">>, <<"i", "m", "p", "o", "r", "t">>>>,  \* line 348
    <<<<"u5bfc", "u51fa">>, <<"e", "x", "p", "o", "r", "t">>>>,  \* line 349
    <<<<"u5f15", "u5165">>, <<"i", "n", "t", "r", "o", "d", "u", "c", "e">>>>,  \* line 350
    <<<<"u5f15", "u7528">>, <<"r", "e", "f", "e", "r", "e", "n", "c", "e">>>>,  \* line 351
    <<<<"u8c03", "u7528">>, <<"c", "a", "l", "l">>>>,  \* line 352
    <<<<"u6267", "u884c">>, <<"e", "x", "e", "c", "u", "t", "e">>>>,  \* line 353
    <<<<"u8fd0", "u884c">>, <<"r", "u", "n">>>>,  \* line 354
    <<<<"u542f", "u7528">>, <<"e", "n", "a", "b", "l", "e">>>>,  \* line 355
    <<<<"u7981", "u7528">>, <<"d", "i", "s", "a", "b", "l", "e">>>>,  \* line 356
    <<<<"u5f00", "u542f">>, <<"t", "u", "r", "n", " ", "o", "n">>>>,  \* line 357
    <<<<"u5173", "u95ed">>, <<"t", "u", "r", "n", " ", "o", "f", "f">>>>,  \* line 358
    <<<<"u6253", "u5f00">>, <<"o", "p", "e", "n">>>>,  \* line 359
    <<<<"u5173", "u95ed">>, <<"c", "l", "o", "s", "e">>>>,  \* line 360
    <<<<"u663e", "u793a">>, <<"s", "h", "o", "w">>>>,  \* line 361
    <<<<"u9690", "u85cf">>, <<"h", "i", "d", "e">>>>,  \* line 362
    <<<<"u53ef", "u89c1">>, <<"v", "i", "s", "i", "b", "l", "e">>>>,  \* line 363
    <<<<"u4e0d", "u53ef", "u89c1">>, <<"i", "n", "v", "i", "s", "i", "b", "l", "e">>>>,  \* line 364
    <<<<"u53ef", "u7528">>, <<"a", "v", "a", "i", "l", "a", "b", "l", "e">>>>,  \* line 365
    <<<<"u4e0d", "u53ef", "u7528">>, <<"u", "n", "a", "v", "a", "i", "l", "a", "b", "l", "e">>>>,  \* line 366
    <<<<"u6709", "u6548">>, <<"v", "a", "l", "i", "d">>>>,  \* line 367
    <<<<"u65e0", "u6548">>, <<"i", "n", "v", "a", "l", "i", "d">>>>,  \* line 368
    <<<<"u6b63", "u786e">>, <<"c", "o", "r", "r", "e", "c", "t">>>>,  \* line 369
    <<<<"u9519", "u8bef">>, <<"e", "r", "r", "o", "r">>>>,  \* line 370
    <<<<"u6210", "u529f">>, <<"s", "u", "c", "c", "e", "s", "s">>>>,  \* line 371
    <<<<"u5931", "u8d25">>, <<"f", "a", "i", "l">>>>,  \* line 372
    <<<<"u5b8c", "u6210">>, <<"c", "o", "m", "p", "l", "e", "t", "e">>>>,  \* line 373
    <<<<"u672a", "u5b8c", "u6210">>, <<"i", "n", "c", "o", "m", "p", "l", "e", "t", "e">>>>,  \* line 374
    <<<<"u5df2", "u5b8c", "u6210">>, <<"c", "o", "m", "p", "l", "e", "t", "e", "d">>>>,  \* line 375
    <<<<"u672a", "u5f00", "u59cb">>, <<"n", "o", "t", " ", "s", "t", "a", "r", "t", "e", "d">>>>,  \* line 376
    <<<<"u8fdb", "u884c", "u4e2d">>, <<"i", "n", " ", "p", "r", "o", "g", "r", "e", "s", "s">>>>,  \* line 377
    <<<<"u7b49", "u5f85">>, <<"w", "a", "i", "t", "i", "n", "g">>>>,  \* line 378
    <<<<"u51c6", "u5907">>, <<"r", "e", "a", "d", "y">>>>,  \* line 379
    <<<<"u5c31", "u7eea">>, <<"r", "e", "a", "d", "y">>>>,  \* line 380
    <<<<"u7a7a", "u95f2">>, <<"i", "d", "l", "e">>>>,  \* line 381
    <<<<"u5fd9", "u788c">>, <<"b", "u", "s", "y">>>>,  \* line 382
    <<<<"u6d3b", "u8dc3">>, <<"a", "c", "t", "i", "v", "e">>>>,  \* line 383
    <<<<"u975e", "u6d3b", "u8dc3">>, <<"i", "n", "a", "c", "t", "i", "v", "e">>>>,  \* line 384
    <<<<"u5728", "u7ebf">>, <<"o", "n", "l", "i", "n", "e">>>>,  \* line 385
    <<<<"u79bb", "u7ebf">>, <<"o", "f", "f", "l", "i", "n", "e">>>>,  \* line 386
    <<<<"u8fde", "u63a5">>, <<"c", "o", "n", "n", "e", "c", "t">>>>,  \* line 387
    <<<<"u65ad", "u5f00">>, <<"d", "i", "s", "c", "o", "n", "n", "e", "c", "t">>>>,  \* line 388
    <<<<"u8fde", "u63a5", "u4e2d">>, <<"c", "o", "n", "n", "e", "c", "t", "i", "n", "g">>>>,  \* line 389
    <<<<"u5df2", "u8fde", "u63a5">>, <<"c", "o", "n", "n", "e", "c", "t", "e", "d">>>>,  \* line 390
    <<<<"u672a", "u8fde", "u63a5">>, <<"d", "i", "s", "c", "o", "n", "n", "e", "c", "t", "e", "d">>>>,  \* line 391
    <<<<"u91cd", "u8fde">>, <<"r", "e", "c", "o", "n", "n", "e", "c", "t">>>>,  \* line 392
    <<<<"u8d85", "u65f6">>, <<"t", "i", "m", "e", "o", "u", "t">>>>,  \* line 393
    <<<<"u8fc7", "u671f">>, <<"e", "x", "p", "i", "r", "e", "d">>>>,  \* line 394
    <<<<"u5237", "u65b0">>, <<"r", "e", "f", "r", "e", "s", "h">>>>,  \* line 395
    <<<<"u66f4", "u65b0">>, <<"u", "p", "d", "a", "t", "e">>>>,  \* line 396
    <<<<"u5347", "u7ea7">>, <<"u", "p", "g", "r", "a", "d", "e">>>>,  \* line 397
    <<<<"u964d", "u7ea7">>, <<"d", "o", "w", "n", "g", "r", "a", "d", "e">>>>,  \* line 398
    <<<<"u56de", "u6eda">>, <<"r", "o", "l", "l", "b", "a", "c", "k">>>>,  \* line 399
    <<<<"u64a4", "u9500">>, <<"u", "n", "d", "o">>>>,  \* line 400
    <<<<"u91cd", "u505a">>, <<"r", "e", "d", "o">>>>,  \* line 401
    <<<<"u6062", "u590d">>, <<"r", "e", "s", "t", "o", "r", "e">>>>,  \* line 402
    <<<<"u5907", "u4efd">>, <<"b", "a", "c", "k", "u", "p">>>>,  \* line 403
    <<<<"u8fd8", "u539f">>, <<"r", "e", "s", "t", "o", "r", "e">>>>,  \* line 404
    <<<<"u540c", "u6b65">>, <<"s", "y", "n", "c">>>>,  \* line 405
    <<<<"u5f02", "u6b65">>, <<"a", "s", "y", "n", "c">>>>,  \* line 406
    <<<<"u5e76", "u53d1">>, <<"c", "o", "n", "c", "u", "r", "r", "e", "n", "t">>>>,  \* line 407
    <<<<"u4e32", "u884c">>, <<"s", "e", "r", "i", "a", "l">>>>,  \* line 408
    <<<<"u5e76", "u884c">>, <<"p", "a", "r", "a", "l", "l", "e", "l">>>>,  \* line 409
    <<<<"u987a", "u5e8f">>, <<"s", "e", "q", "u", "e", "n", "t", "i", "a", "l">>>>,  \* line 410
    <<<<"u968f", "u673a">>, <<"r", "a", "n", "d", "o", "m">>>>,  \* line 411
    <<<<"u6392", "u5e8f">>, <<"s", "o", "r", "t">>>>,  \* line 412
    <<<<"u5206", "u7ec4">>, <<"g", "r", "o", "u", "p">>>>,  \* line 413
    <<<<"u5206", "u7c7b">>, <<"c", "l", "a", "s", "s", "i", "f", "y">>>>,  \* line 414
    <<<<"u5206", "u5272">>, <<"s", "p", "l", "i", "t">>>>,  \* line 415
    <<<<"u5408", "u5e76">>, <<"m", "e", "r", "g", "e">>>>,  \* line 416
    <<<<"u8054", "u5408">>, <<"u", "n", "i", "o", "n">>>>,  \* line 417
    <<<<"u4ea4", "u96c6">>, <<"i", "n", "t", "e", "r", "s", "e", "c", "t", "i", "o", "n">>>>,  \* line 418
    <<<<"u5dee", "u96c6">>, <<"d", "i", "f", "f", "e", "r", "e", "n", "c", "e">>>>,  \* line 419
    <<<<"u5b50", "u96c6">>, <<"s", "u", "b", "s", "e", "t">>>>,  \* line 420
    <<<<"u8d85", "u96c6">>, <<"s", "u", "p", "e", "r", "s", "e", "t">>>>,  \* line 421
    <<<<"u96c6", "u5408">>, <<"s", "e", "t">>>>,  \* line 422
    <<<<"u6570", "u7ec4">>, <<"a", "r", "r", "a", "y">>>>,  \* line 423
    <<<<"u5217", "u8868">>, <<"l", "i", "s", "t">>>>,  \* line 424
    <<<<"u961f", "u5217">>, <<"q", "u", "e", "u", "e">>>>,  \* line 425
    <<<<"u6808">>, <<"s", "t", "a", "c", "k">>>>,  \* line 426
    <<<<"u5806">>, <<"h", "e", "a", "p">>>>,  \* line 427
    <<<<"u6811">>, <<"t", "r", "e", "e">>>>,  \* line 428
    <<<<"u56fe">>, <<"g", "r", "a", "p", "h">>>>,  \* line 429
    <<<<"u8282", "u70b9">>, <<"n", "o", "d", "e">>>>,  \* line 430
    <<<<"u8fb9">>, <<"e", "d", "g", "e">>>>,  \* line 431
    <<<<"u8def", "u5f84">>, <<"p", "a", "t", "h">>>>,  \* line 432
    <<<<"u6df1", "u5ea6">>, <<"d", "e", "p", "t", "h">>>>,  \* line 433
    <<<<"u5e7f", "u5ea6">>, <<"b", "r", "e", "a", "d", "t", "h">>>>,  \* line 434
    <<<<"u904d", "u5386">>, <<"t", "r", "a", "v", "e", "r", "s", "e">>>>,  \* line 435
    <<<<"u641c", "u7d22">>, <<"s", "e", "a", "r", "c", "h">>>>,  \* line 436
    <<<<"u67e5", "u627e">>, <<"f", "i", "n", "d">>>>,  \* line 437
    <<<<"u5b9a", "u4f4d">>, <<"l", "o", "c", "a", "t", "e">>>>,  \* line 438
    <<<<"u7d22", "u5f15">>, <<"i", "n", "d", "e", "x">>>>,  \* line 439
    <<<<"u952e">>, <<"k", "e", "y">>>>,  \* line 440
    <<<<"u503c">>, <<"v", "a", "l", "u", "e">>>>,  \* line 441
    <<<<"u5bf9">>, <<"p", "a", "i", "r">>>>,  \* line 442
    <<<<"u6620", "u5c04">>, <<"m", "a", "p", "p", "i", "n", "g">>>>,  \* line 443
    <<<<"u5b57", "u5178">>, <<"d", "i", "c", "t", "i", "o", "n", "a", "r", "y">>>>,  \* line 444
    <<<<"u54c8", "u5e0c">>, <<"h", "a", "s", "h">>>>,  \* line 445
    <<<<"u6563", "u5217">>, <<"h", "a", "s", "h">>>>,  \* line 446
    <<<<"u8868">>, <<"t", "a", "b", "l", "e">>>>,  \* line 447
    <<<<"u6570", "u636e", "u5e93">>, <<"d", "a", "t", "a", "b", "a", "s", "e">>>>,  \* line 448
    <<<<"u8868", "u683c">>, <<"t", "a", "b", "l", "e">>>>,  \* line 449
    <<<<"u884c">>, <<"r", "o", "w">>>>,  \* line 450
    <<<<"u5217">>, <<"c", "o", "l", "u", "m", "n">>>>,  \* line 451
    <<<<"u5b57", "u6bb5">>, <<"f", "i", "e", "l", "d">>>>,  \* line 452
    <<<<"u8bb0", "u5f55">>, <<"r", "e", "c", "o", "r", "d">>>>,  \* line 453
    <<<<"u6761", "u76ee">>, <<"e", "n", "t", "r", "y">>>>,  \* line 454
    <<<<"u9879", "u76ee">>, <<"i", "t", "e", "m">>>>,  \* line 455
    <<<<"u5143", "u7d20">>, <<"e", "l", "e", "m", "e", "n", "t">>>>,  \* line 456
    <<<<"u6210", "u5458">>, <<"m", "e", "m", "b", "e", "r">>>>,  \* line 457
    <<<<"u5c5e", "u6027">>, <<"p", "r", "o", "p", "e", "r", "t", "y">>>>,  \* line 458
    <<<<"u7279", "u6027">>, <<"f", "e", "a", "t", "u", "r", "e">>>>,  \* line 459
    <<<<"u529f", "u80fd">>, <<"f", "u", "n", "c", "t", "i", "o", "n">>>>,  \* line 460
    <<<<"u80fd", "u529b">>, <<"c", "a", "p", "a", "b", "i", "l", "i", "t", "y">>>>,  \* line 461
    <<<<"u6743", "u9650">>, <<"p", "e", "r", "m", "i", "s", "s", "i", "o", "n">>>>,  \* line 462
    <<<<"u89d2", "u8272">>, <<"r", "o", "l", "e">>>>,  \* line 463
    <<<<"u7528", "u6237">>, <<"u", "s", "e", "r">>>>,  \* line 464
    <<<<"u7ba1", "u7406", "u5458">>, <<"a", "d", "m", "i", "n">>>>,  \* line 465
    <<<<"u8bbf", "u5ba2">>, <<"g", "u", "e", "s", "t">>>>,  \* line 466
    <<<<"u4f1a", "u5458">>, <<"m", "e", "m", "b", "e", "r">>>>,  \* line 467
    <<<<"u5ba2", "u6237">>, <<"c", "u", "s", "t", "o", "m", "e", "r">>>>,  \* line 468
    <<<<"u4f9b", "u5e94", "u5546">>, <<"s", "u", "p", "p", "l", "i", "e", "r">>>>,  \* line 469
    <<<<"u63d0", "u4f9b", "u5546">>, <<"p", "r", "o", "v", "i", "d", "e", "r">>>>,  \* line 470
    <<<<"u670d", "u52a1", "u5546">>, <<"s", "e", "r", "v", "i", "c", "e", " ", "p", "r", "o", "v", "i", "d", "e", "r">>>>,  \* line 471
    <<<<"u5f00", "u53d1", "u8005">>, <<"d", "e", "v", "e", "l", "o", "p", "e", "r">>>>,  \* line 472
    <<<<"u7a0b", "u5e8f", "u5458">>, <<"p", "r", "o", "g", "r", "a", "m", "m", "e", "r">>>>,  \* line 473
    <<<<"u5de5", "u7a0b", "u5e08">>, <<"e", "n", "g", "i", "n", "e", "e", "r">>>>,  \* line 474
    <<<<"u67b6", "u6784", "u5e08">>, <<"a", "r", "c", "h", "i", "t", "e", "c", "t">>>>,  \* line 475
    <<<<"u8bbe", "u8ba1", "u5e08">>, <<"d", "e", "s", "i", "g", "n", "e", "r">>>>,  \* line 476
    <<<<"u6d4b", "u8bd5", "u5458">>, <<"t", "e", "s", "t", "e", "r">>>>,  \* line 477
    <<<<"u5206", "u6790", "u5e08">>, <<"a", "n", "a", "l", "y", "s", "t">>>>,  \* line 478
    <<<<"u987e", "u95ee">>, <<"c", "o", "n", "s", "u", "l", "t", "a", "n", "t">>>>,  \* line 479
    <<<<"u4e13", "u5bb6">>, <<"e", "x", "p", "e", "r", "t">>>>,  \* line 480
    <<<<"u65b0", "u624b">>, <<"b", "e", "g", "i", "n", "n", "e", "r">>>>,  \* line 481
    <<<<"u521d", "u5b66", "u8005">>, <<"b", "e", "g", "i", "n", "n", "e", "r">>>>,  \* line 482
    <<<<"u9ad8", "u7ea7">>, <<"a", "d", "v", "a", "n", "c", "e", "d">>>>,  \* line 483
    <<<<"u4e2d", "u7ea7">>, <<"i", "n", "t", "e", "r", "m", "e", "d", "i", "a", "t", "e">>>>,  \* line 484
    <<<<"u521d", "u7ea7">>, <<"j", "u", "n", "i", "o", "r">>>>,  \* line 485
    <<<<"u8d44", "u6df1">>, <<"s", "e", "n", "i", "o", "r">>>>,  \* line 486
    <<<<"u4e3b", "u7ba1">>, <<"s", "u", "p", "e", "r", "v", "i", "s", "o", "r">>>>,  \* line 487
    <<<<"u7ecf", "u7406">>, <<"m", "a", "n", "a", "g", "e", "r">>>>,  \* line 488
    <<<<"u603b", "u76d1">>, <<"d", "i", "r", "e", "c", "t", "o", "r">>>>,  \* line 489
    <<<<"u603b", "u88c1">>, <<"p", "r", "e", "s", "i", "d", "e", "n", "t">>>>,  \* line 490
    <<<<"C", "E", "O">>, <<"C", "E", "O">>>>,  \* line 491
    <<<<"C", "T", "O">>, <<"C", "T", "O">>>>,  \* line 492
    <<<<"C", "F", "O">>, <<"C", "F", "O">>>>,  \* line 493
    <<<<"C", "O", "O">>, <<"C", "O", "O">>>>,  \* line 494
    <<<<"C", "M", "O">>, <<"C", "M", "O">>>>,  \* line 495
    <<<<"C", "I", "O">>, <<"C", "I", "O">>>>,  \* line 496
    <<<<"C", "H", "R", "O">>, <<"C", "H", "R", "O">>>>,  \* line 497
    <<<<"V", "P">>, <<"V", "P">>>>,  \* line 498
    <<<<"S", "V", "P">>, <<"S", "V", "P">>>>,  \* line 499
    <<<<"E", "V", "P">>, <<"E", "V", "P">>>>,  \* line 500
    <<<<"A", "V", "P">>, <<"A", "V", "P">>>>,  \* line 501
    <<<<"M", "D">>, <<"M", "D">>>>,  \* line 502
    <<<<"G", "M">>, <<"G", "M">>>>,  \* line 503
    <<<<"P", "M">>, <<"P", "M">>>>,  \* line 504
    <<<<"P", "O">>, <<"P", "O">>>>,  \* line 505
    <<<<"B", "A">>, <<"B", "A">>>>,  \* line 506
    <<<<"Q", "A">>, <<"Q", "A">>>>,  \* line 507
    <<<<"Q", "E">>, <<"Q", "E">>>>,  \* line 508
    <<<<"D", "e", "v", "O", "p", "s">>, <<"D", "e", "v", "O", "p", "s">>>>,  \* line 509
    <<<<"S", "R", "E">>, <<"S", "R", "E">>>>,  \* line 510
    <<<<"D", "B", "A">>, <<"D", "B", "A">>>>,  \* line 511
    <<<<"S", "A">>, <<"S", "A">>>>,  \* line 512
    <<<<"S", "E">>, <<"S", "E">>>>,  \* line 513
    <<<<"F", "E">>, <<"F", "E">>>>,  \* line 514
    <<<<"B", "E">>, <<"B", "E">>>>,  \* line 515
    <<<<"F", "S">>, <<"F", "S">>>>,  \* line 516
    <<<<"U", "I">>, <<"U", "I">>>>,  \* line 517
    <<<<"U", "X">>, <<"U", "X">>>>,  \* line 518
    <<<<"U", "E">>, <<"U", "E">>>>,  \* line 519
    <<<<"P", "D">>, <<"P", "D">>>>,  \* line 520
    <<<<"R", "D">>, <<"R", "D">>>>,  \* line 521
    <<<<"O", "P">>, <<"O", "P">>>>,  \* line 522
    <<<<"O", "P", "S">>, <<"O", "P", "S">>>>,  \* line 523
    <<<<"I", "T">>, <<"I", "T">>>>,  \* line 524
    <<<<"I", "S">>, <<"I", "S">>>>,  \* line 525
    <<<<"C", "S">>, <<"C", "S">>>>,  \* line 526
    <<<<"A", "I">>, <<"A", "I">>>>,  \* line 527
    <<<<"M", "L">>, <<"M", "L">>>>,  \* line 528
    <<<<"D", "L">>, <<"D", "L">>>>,  \* line 529
    <<<<"N", "L", "P">>, <<"N", "L", "P">>>>,  \* line 530
    <<<<"C", "V">>, <<"C", "V">>>>,  \* line 531
    <<<<"A", "R">>, <<"A", "R">>>>,  \* line 532
    <<<<"V", "R">>, <<"V", "R">>>>,  \* line 533
    <<<<"M", "R">>, <<"M", "R">>>>,  \* line 534
    <<<<"X", "R">>, <<"X", "R">>>>,  \* line 535
    <<<<"I", "o", "T">>, <<"I", "o", "T">>>>,  \* line 536
    <<<<"I", "I", "o", "T">>, <<"I", "I", "o", "T">>>>,  \* line 537
    <<<<"5", "G">>, <<"5", "G">>>>,  \* line 538
    <<<<"6", "G">>, <<"6", "G">>>>,  \* line 539
    <<<<"W", "i", "F", "i">>, <<"W", "i", "F", "i">>>>,  \* line 540
    <<<<"B", "l", "u", "e", "t", "o", "o", "t", "h">>, <<"B", "l", "u", "e", "t", "o", "o", "t", "h">>>>,  \* line 541
    <<<<"N", "F", "C">>, <<"N", "F", "C">>>>,  \* line 542
    <<<<"R", "F", "I", "D">>, <<"R", "F", "I", "D">>>>,  \* line 543
    <<<<"G", "P", "S">>, <<"G", "P", "S">>>>,  \* line 544
    <<<<"G", "I", "S">>, <<"G", "I", "S">>>>,  \* line 545
    <<<<"A", "P", "I">>, <<"A", "P", "I">>>>,  \* line 546
    <<<<"S", "D", "K">>, <<"S", "D", "K">>>>,  \* line 547
    <<<<"I", "D", "E">>, <<"I", "D", "E">>>>,  \* line 548
    <<<<"C", "L", "I">>, <<"C", "L", "I">>>>,  \* line 549
    <<<<"G", "U", "I">>, <<"G", "U", "I">>>>,  \* line 550
    <<<<"T", "U", "I">>, <<"T", "U", "I">>>>,  \* line 551
    <<<<"C", "U", "I">>, <<"C", "U", "I">>>>,  \* line 552
    <<<<"U", "I">>, <<"U", "I">>>>,  \* line 553
    <<<<"U", "X">>, <<"U", "X">>>>,  \* line 554
    <<<<"D", "X">>, <<"D", "X">>>>,  \* line 555
    <<<<"C", "X">>, <<"C", "X">>>>,  \* line 556
    <<<<"E", "X">>, <<"E", "X">>>>,  \* line 557
    <<<<"P", "X">>, <<"P", "X">>>>,  \* line 558
    <<<<"B", "X">>, <<"B", "X">>>>,  \* line 559
    <<<<"S", "X">>, <<"S", "X">>>>,  \* line 560
    <<<<"T", "X">>, <<"T", "X">>>>,  \* line 561
    <<<<"R", "X">>, <<"R", "X">>>>,  \* line 562
    <<<<"F", "X">>, <<"F", "X">>>>,  \* line 563
    <<<<"G", "X">>, <<"G", "X">>>>,  \* line 564
    <<<<"H", "X">>, <<"H", "X">>>>,  \* line 565
    <<<<"I", "X">>, <<"I", "X">>>>,  \* line 566
    <<<<"J", "X">>, <<"J", "X">>>>,  \* line 567
    <<<<"K", "X">>, <<"K", "X">>>>,  \* line 568
    <<<<"L", "X">>, <<"L", "X">>>>,  \* line 569
    <<<<"M", "X">>, <<"M", "X">>>>,  \* line 570
    <<<<"N", "X">>, <<"N", "X">>>>,  \* line 571
    <<<<"O", "X">>, <<"O", "X">>>>,  \* line 572
    <<<<"P", "X">>, <<"P", "X">>>>,  \* line 573
    <<<<"Q", "X">>, <<"Q", "X">>>>,  \* line 574
    <<<<"R", "X">>, <<"R", "X">>>>,  \* line 575
    <<<<"S", "X">>, <<"S", "X">>>>,  \* line 576
    <<<<"T", "X">>, <<"T", "X">>>>,  \* line 577
    <<<<"U", "X">>, <<"U", "X">>>>,  \* line 578
    <<<<"V", "X">>, <<"V", "X">>>>,  \* line 579
    <<<<"W", "X">>, <<"W", "X">>>>,  \* line 580
    <<<<"X", "X">>, <<"X", "X">>>>,  \* line 581
    <<<<"Y", "X">>, <<"Y", "X">>>>,  \* line 582
    <<<<"Z", "X">>, <<"Z", "X">>>>  \* line 583
  >>

\* ------------------------------------------------------------------------
\* CommentCleaner: the classifier
\* ------------------------------------------------------------------------

\* the position after a greedy \d* that starts at position k
RECURSIVE SkipDigits(_, _)
SkipDigits(s, k) == IF k <= Len(s) /\ IsDigit(s[k]) THEN SkipDigits(s, k + 1) ELSE k

\* re.match(pattern, line_stripped, re.IGNORECASE) for one preserve pattern
PreserveMatch(p, s) ==
  LET b  == BodyStart(s)
      ls == lower(s)
      l  == lower(p.lit)
  IN  /\ b # 0
      /\ CASE p.kind = "tag"       -> StartsWithAt(ls, b, l) /\ b + 1 <= Len(s) /\ IsWord(s[b + 1])
           [] p.kind = "lit"       -> StartsWithAt(ls, b, l)
           [] p.kind = "url"       -> \/ StartsWithAt(ls, b, l \o <<":", "/", "/">>)
                                      \/ StartsWithAt(ls, b, l \o <<"s", ":", "/", "/">>)
           [] p.kind = "num"       -> LET d == SkipDigits(s, b)
                                      IN  d > b /\ StartsWithAt(ls, d, l)
           [] p.kind = "lit_space" -> StartsWithAt(ls, b, l) /\ b + 1 <= Len(s) /\ IsSpace(s[b + 1])
           [] p.kind = "run"       -> StartsWithAt(ls, b, l)

\* re.match(pattern, line_stripped) for one remove pattern
RemoveMatch(r, s) ==
  LET a == AfterMarker(s)
      b == BodyStart(s)
  IN  /\ a # 0
      /\ CASE r = "empty"   -> b > Len(s)
           [] r = "general" -> b > a /\ b <= Len(s) /\ IsWord(s[b]) /\ DotStarEnd(s, b)

\* re.match(pattern, comment_content, re.IGNORECASE) for one useless pattern
UselessMatch(alts, content) ==
  /\ \E k \in 1..Len(alts) : StartsWithAt(lower(content), 1, lower(alts[k]))
  /\ DotStarEnd(content, 1)

\* one of the fixed keywords occurs in the line, whatever the case
HasImportantKeyword(line) ==
  \E k \in 1..Len(important_keywords) : Contains(lower(line), lower(important_keywords[k]))

\* the line looks like a part of a block comment
IsBlockCommentPart(line) ==
  \/ Contains(line, <<"/", "*">>)
  \/ Contains(line, <<"*", "/">>)
  \/ StartsWithAt(strip(line), 1, <<"*">>)

MatchesPreservePattern(line) ==
  \E k \in 1..Len(preserve_patterns) : PreserveMatch(preserve_patterns[k], strip(line))

\* should_preserve_comment without the block-comment test and the keywords
should_preserve_comment_PatternsOnly(line) == MatchesPreservePattern(line)

should_preserve_comment(line) ==
  \/ MatchesPreservePattern(line)
  \/ IsBlockCommentPart(line)
  \/ HasImportantKeyword(line)

MatchesRemovePattern(line) ==
  \E k \in 1..Len(remove_patterns) : RemoveMatch(remove_patterns[k], strip(line))

\* re.sub(r'^\s*//\s*', '', line_stripped).strip(), for a line that starts with
\* the marker
comment_content(line) == strip(From(strip(line), BodyStart(strip(line))))

\* TooShort with the comparison off by one
TooShort_OffByOne(content) == Len(content) <= MinCommentLen

TooShort(content) == Len(content) < MinCommentLen

IsUseless(content) ==
  \E k \in 1..Len(useless_patterns) : UselessMatch(useless_patterns[k], content)

\* NormalRemove with the remove patterns consulted before the preserve rules
NormalRemove_RemoveFirst(line) ==
  IF MatchesRemovePattern(line) THEN TRUE
  ELSE IF should_preserve_comment(line) THEN FALSE
  ELSE IF AfterMarker(strip(line)) # 0
       THEN TooShort(comment_content(line)) \/ IsUseless(comment_content(line))
       ELSE FALSE

\* the branch of should_remove_comment taken when self.aggressive is false
NormalRemove(line) ==
  IF should_preserve_comment(line) THEN FALSE
  ELSE IF MatchesRemovePattern(line) THEN TRUE
  ELSE IF AfterMarker(strip(line)) # 0
       THEN TooShort(comment_content(line)) \/ IsUseless(comment_content(line))
       ELSE FALSE

\* the branch of should_remove_comment taken when self.aggressive is true
AggressiveRemove(line) == Contains(strip(line), <<"/", "/">>)

\* ------------------------------------------------------------------------
\* State
\* ------------------------------------------------------------------------

VARIABLES
  dry_run,           \* self.dry_run
  aggressive,        \* self.aggressive
  processed_files,   \* self.processed_files
  self_removed,      \* self.removed_comments
  total_removed,     \* clean_project: total_removed
  printed,           \* clean_project: what it printed about the last file it counted
  disk,              \* the files of the project: file -> [enc, lines]
  disk0,             \* the files as they were when the first run started
  cur,               \* clean_project: the index of file_path in files_to_process
  run,               \* 1 in the first invocation of the tool, 2 in the second
  pc,                \* the position of the run
  lines,             \* clean_file: lines
  i,                 \* clean_file: i, 0 before the first line
  j,                 \* clean_file: j when the scan of line i ended (0-based)
  new_lines,         \* clean_file: new_lines
  removed_comments,  \* clean_file: removed_comments
  removed_count,     \* clean_file: removed_count
  in_string,         \* clean_file: in_string
  string_char,       \* clean_file: string_char
  ret,               \* the value clean_file returned: [count, log]
  outcome,           \* the way clean_file ended
  meta,              \* VersionUpdater: package.json, tauri.conf.json and Cargo.toml
  meta0,             \* the three files as they were when run() was entered first
  prompt,            \* VersionUpdater: the prompt that waits for input
  answer,            \* VersionUpdater: the last line input() returned
  new_version,       \* VersionUpdater: new_version, empty before it is set
  result             \* VersionUpdater: the way the last step ended

config == <<dry_run, aggressive>>

counters == <<processed_files, self_removed, total_removed, printed>>

locals == <<lines, i, j, new_lines, removed_comments, removed_count, in_string, string_char>>

updater == <<meta, meta0, prompt, answer, new_version, result>>

cleaner == <<config, counters, disk, disk0, cur, run, pc, locals, ret, outcome>>

vars == <<cleaner, updater>>

\* ------------------------------------------------------------------------
\* CommentCleaner.clean_file: the pass over the lines
\* ------------------------------------------------------------------------

Quotes == {"\"", "'", BACKTICK}

Marker == <<"/", "/">>

\* the quote state at the end of a line whose characters are all scanned from
\* jj on as if no marker ended the scan
RECURSIVE QuotesToEnd(_, _, _, _)
QuotesToEnd(line, jj, ins, sc) ==
  IF jj >= Len(line) THEN [in_string |-> ins, string_char |-> sc]
  ELSE IF ~ins
       THEN IF line[jj + 1] \in {"\"", "'", BACKTICK}
            THEN QuotesToEnd(line, jj + 1, TRUE, line[jj + 1])
            ELSE QuotesToEnd(line, jj + 1, ins, sc)
       ELSE IF line[jj + 1] = sc /\ (jj = 0 \/ line[jj] # "\\")
            THEN QuotesToEnd(line, jj + 1, FALSE, None)
            ELSE QuotesToEnd(line, jj + 1, ins, sc)

\* ScanFrom that goes on tracking quotes after the marker
RECURSIVE ScanFrom_ThroughComment(_, _, _, _)
ScanFrom_ThroughComment(line, jj, ins, sc) ==
  IF jj >= Len(line)
  THEN [j |-> jj, found |-> FALSE, in_string |-> ins, string_char |-> sc]
  ELSE IF ~ins
       THEN IF line[jj + 1] \in {"\"", "'", BACKTICK}
            THEN ScanFrom_ThroughComment(line, jj + 1, TRUE, line[jj + 1])
            ELSE IF StartsWithAt(line, jj + 1, <<"/", "/">>)
                 THEN [j |-> jj, found |-> TRUE,
                       in_string |-> QuotesToEnd(line, jj, ins, sc).in_string,
                       string_char |-> QuotesToEnd(line, jj, ins, sc).string_char]
                 ELSE ScanFrom_ThroughComment(line, jj + 1, ins, sc)
       ELSE IF line[jj + 1] = sc /\ (jj = 0 \/ line[jj] # "\\")
            THEN ScanFrom_ThroughComment(line, jj + 1, FALSE, None)
            ELSE ScanFrom_ThroughComment(line, jj + 1, ins, sc)

\* the while loop over the characters of one line, from j = jj on: where it
\* ends, whether it ended at a marker, and the quote state it leaves
RECURSIVE ScanFrom(_, _, _, _)
ScanFrom(line, jj, ins, sc) ==
  IF jj >= Len(line)
  THEN [j |-> jj, found |-> FALSE, in_string |-> ins, string_char |-> sc]
  ELSE LET char == line[jj + 1]
       IN  IF ~ins
           THEN IF char \in Quotes
                THEN ScanFrom(line, jj + 1, TRUE, char)
                ELSE IF StartsWithAt(line, jj + 1, Marker)
                     THEN [j |-> jj, found |-> TRUE, in_string |-> ins, string_char |-> sc]
                     ELSE ScanFrom(line, jj + 1, ins, sc)
           ELSE IF char = sc /\ (jj = 0 \/ line[jj] # "\\")
                THEN ScanFrom(line, jj + 1, FALSE, None)
                ELSE ScanFrom(line, jj + 1, ins, sc)

should_remove_comment(line) ==
  IF aggressive THEN AggressiveRemove(line) ELSE NormalRemove(line)

\* code_part without the rstrip()
code_part_NoStrip(line, jj) == SubSeq(line, 1, jj)

\* temp_line[:j].rstrip()
code_part(line, jj) == rstrip(SubSeq(line, 1, jj))

\* an entry of removed_comments for a line that is dropped
LogWhole(n, line) == [lineno |-> n, inline |-> FALSE, text |-> strip(line)]

\* an entry of removed_comments for a line that is cut at the marker
LogInline(n, line, jj) == [lineno |-> n, inline |-> TRUE, text |-> strip(From(line, jj + 1))]

\* StartPass with the scanner inside a string
StartPass_InsideString(ls) ==
  /\ lines' = ls
  /\ i' = 0
  /\ j' = 0
  /\ new_lines' = <<>>
  /\ removed_comments' = <<>>
  /\ removed_count' = 0
  /\ in_string' = TRUE
  /\ string_char' = "'"

\* the locals when the pass starts
StartPass(ls) ==
  /\ lines' = ls
  /\ i' = 0
  /\ j' = 0
  /\ new_lines' = <<>>
  /\ removed_comments' = <<>>
  /\ removed_count' = 0
  /\ in_string' = FALSE
  /\ string_char' = None

\* one iteration of `for i, line in enumerate(lines, 1)`
ProcessLine ==
  /\ pc = "scan"
  /\ i < Len(lines)
  /\ LET line   == lines[i + 1]
         sc     == ScanFrom(line, 0, in_string, string_char)
         hit    == sc.found /\ should_remove_comment(line)
         inline == hit /\ aggressive /\ code_part(line, sc.j) # <<>>
         should_remove  == hit /\ ~inline
         processed_line == IF inline THEN code_part(line, sc.j) \o <<"\n">> ELSE line
     IN  /\ i' = i + 1
         /\ j' = sc.j
         /\ in_string' = sc.in_string
         /\ string_char' = sc.string_char
         /\ removed_comments' =
              IF inline THEN Append(removed_comments, LogInline(i + 1, line, sc.j))
              ELSE IF hit THEN Append(removed_comments, LogWhole(i + 1, line))
              ELSE removed_comments
         /\ removed_count' = IF hit THEN removed_count + 1 ELSE removed_count
         /\ new_lines' = IF should_remove THEN new_lines ELSE Append(new_lines, processed_line)
  /\ UNCHANGED <<updater, config, counters, disk, disk0, cur, run, pc, lines, ret, outcome>>

\* ------------------------------------------------------------------------
\* The line pass on one line, in every quote state a line can be entered in
\* ------------------------------------------------------------------------

\* the longest enumerated line, without its terminator
MaxLineLen == 4

\* the characters of the enumerated lines
Alphabet == {"/", "\"", "\\", " ", "i", "f"}

Texts(n) == UNION {[1..k -> Alphabet] : k \in 0..n}

\* lines of the kinds the rule tables and the scanner distinguish
SampleBodies ==
  {
    <<"/", "/", " ", "T", "O", "D", "O", ":", " ", "f", "i", "x", " ", "t", "h", "i", "s", " ", "l", "a", "t", "e", "r">>,
    <<"/", "/", " ", "t", "o", "d", "o", ":", " ", "x">>,
    <<"/", "/", " ", "@", "p", "a", "r", "a", "m", " ", "x">>,
    <<"/", "/", " ", "e", "s", "l", "i", "n", "t", "-", "d", "i", "s", "a", "b", "l", "e">>,
    <<"/", "/", " ", "p", "r", "e", "t", "t", "i", "e", "r", "-", "i", "g", "n", "o", "r", "e">>,
    <<"/", "/", " ", "F", "I", "X", "M", "E", ":", " ", "a">>,
    <<"/", "/", " ", "N", "O", "T", "E", ":", " ", "a">>,
    <<"/", "/", " ", "H", "A", "C", "K", ":", " ", "a">>,
    <<"/", "/", " ", "X", "X", "X", ":", " ", "a">>,
    <<"/", "/", " ", "C", "o", "p", "y", "r", "i", "g", "h", "t", " ", "2", "0", "2", "4">>,
    <<"/", "/", " ", "L", "i", "c", "e", "n", "s", "e", " ", "M", "I", "T">>,
    <<"/", "/", " ", "A", "u", "t", "h", "o", "r", " ", "m", "e">>,
    <<"/", "/", " ", "h", "t", "t", "p", "s", ":", "/", "/", "b", "a", "r">>,
    <<"/", "/", " ", "h", "t", "t", "p", ":", "/", "/", "b", "a", "r">>,
    <<"/", "/", " ", "1", ".", " ", "f", "i", "r", "s", "t">>,
    <<"/", "/", " ", "-", " ", "i", "t", "e", "m">>,
    <<"/", "/", " ", "*", " ", "i", "t", "e", "m">>,
    <<"/", "/", " ", "=", "=", "=", "=">>,
    <<"/", "/", " ", "-", "-", "-", "-">>,
    <<"/", "/", " ", "*", "*", "*", "*">>,
    <<"/", "/", "=">>,
    <<"/", "/", "@">>,
    <<"/", "/", " ", "1">>,
    <<"/", "/", " ", "-", "x">>,
    <<"/", "/", " ", "u521b", "u5efa", "u7ec4", "u4ef6">>,
    <<"/", "/", "u521b", "u5efa", "u7ec4", "u4ef6">>,
    <<"/", "/", " ", "e", "x", "p", "l", "a", "n", "a", "t", "o", "r", "y", " ", "n", "o", "t", "e">>,
    <<"/", "/", "i", "m", "p", "o", "r", "t", " ", "x">>,
    <<"/", "/", "I", "m", "p", "o", "r", "t", " ", "x">>,
    <<"/", "/", " ", "t", "h", "e", " ", "a", "p", "i", " ", "c", "a", "l", "l">>,
    <<"/", "/", "f", "i">>,
    <<"/", "/", "x">>,
    <<"/", "/">>,
    <<" ", " ", "/", "/", " ", " ">>,
    <<"/", "/", " ", "\"", "q", "u", "o", "t", "e", "d", "\"">>,
    <<"/", "/", "(", "n", "o", "t", "e", ")">>,
    <<"/", "/", "o", "k", " ", "t", "h", "e", "n">>,
    <<"c", "o", "n", "s", "t", " ", "u", "r", "l", " ", "=", " ", "\"", "h", "t", "t", "p", ":", "/", "/", "f", "o", "o", "\"", ";", " ", "/", "/", " ", "s", "e", "e", " ", "h", "t", "t", "p", "s", ":", "/", "/", "b", "a", "r">>,
    <<"d", "o", "W", "o", "r", "k", "(", ")", ";", " ", "/", "/", " ", "e", "x", "p", "l", "a", "n", "a", "t", "o", "r", "y", " ", "n", "o", "t", "e">>,
    <<"d", "o", "W", "o", "r", "k", "(", ")", ";", " ", "/", "/", " ", "T", "O", "D", "O", ":", " ", "l", "a", "t", "e", "r">>,
    <<"x", " ", "=", " ", "\"", "\\", "\\", "\"", " ", "+", " ", "\"", "a", "/", "/", "b", "\"">>,
    <<"s", " ", "=", " ", "'", "i", "t", "\\", "'", "s", "'", " ", "/", "/", " ", "c">>,
    <<"s", " ", "=", " ", BACKTICK, "a", "/", "/", "b", BACKTICK, " ", "/", "/", " ", "c">>,
    <<"/", "*", " ", "b", "l", "o", "c", "k", " ", "*", "/", " ", "/", "/", " ", "c">>,
    <<" ", "*", " ", "/", "/", " ", "s", "t", "a", "r">>,
    <<"x", " ", "=", " ", "1", ";">>,
    <<" ", " ", "/", "/", " ", "i", "n", "d", "e", "n", "t", "e", "d">>,
    <<"/", "/", " ", "i", "'", "/", "/">>,
    <<"\"", "/", "/", "\"">>,
    <<"'", "/", "/", "'", " ", "/", "/", " ", "c">>,
    <<"\"", "a", "\"", " ", "/", "/", " ", "\"", "b", "/", "/", "c", "\"">>,
    <<"x", " ", "=", " ", "\"", "a", "\\", "\"", "/", "/", "b", "\"">>,
    <<"'", "/", "/", "'">>,
    <<"f", " ", "'", "/", "/">>,
    <<"/", "/", " ", "i", "t", "'", "s">>,
    <<"x", " ", "=", " ", "\"", "i", "t", "'", "s", "\"", " ", "/", "/", " ", "c", "'", "d">>,
    <<"/", "/", "i", "m", "p", "o", "r", "t", " ", "a", "p", "i">>,
    <<"/", "/", "I", "m", "p", "o", "r", "t", " ", "t", "h", "e", " ", "A", "P", "I">>,
    <<"/", "/", "i", "m", "p", "o", "r", "t", " ", "x", " ", "*", "/">>,
    <<"/", "/", " ", "x", " ", "*", "/">>,
    <<"/", "/", "c", "r", "e", "a", "t", "e", " ", "/", "*", " ", "x">>,
    <<"/", "/", "*">>
  }

\* f.readlines() yields lines that end with a line feed, but for the last one
LineEnds == {<<"\n">>, <<>>}

LineInputs ==
  {b \o <<"\n">> : b \in Texts(MaxLineLen)} \cup {b \o e : b \in SampleBodies, e \in LineEnds}

\* a first line that is kept and leaves the scanner outside a string, or inside
\* a string of each kind
PrevLines == {<<"x", "\n">>} \cup {<<q, "\n">> : q \in Quotes}

NoReturn == [count |-> 0, log |-> <<>>]

\* clean_project has printed about no file
NoReport == [count |-> 0, shown |-> <<>>, more |-> 0]

\* the version updater is not run
NoUpdater ==
  /\ meta = <<>>
  /\ meta0 = <<>>
  /\ prompt = "none"
  /\ answer = <<>>
  /\ new_version = <<>>
  /\ result = "none"

\* clean_file after the first of two lines
InitLine ==
  /\ NoUpdater
  /\ dry_run = TRUE
  /\ aggressive \in BOOLEAN
  /\ processed_files = 0
  /\ self_removed = 0
  /\ total_removed = 0
  /\ printed = NoReport
  /\ \E prev \in PrevLines, line \in LineInputs :
       /\ lines = <<prev, line>>
       /\ disk = <<[enc |-> "utf-8", lines |-> <<prev, line>>]>>
       /\ j = Len(prev)
       /\ new_lines = <<prev>>
       /\ in_string = ScanFrom(prev, 0, FALSE, None).in_string
       /\ string_char = ScanFrom(prev, 0, FALSE, None).string_char
  /\ disk0 = disk
  /\ cur = 1
  /\ run = 1
  /\ pc = "scan"
  /\ i = 1
  /\ removed_comments = <<>>
  /\ removed_count = 0
  /\ ret = NoReturn
  /\ outcome = "none"

NextLine == ProcessLine

SpecLine == InitLine /\ [][NextLine]_vars

\* ------------------------------------------------------------------------
\* CommentCleaner.clean_file: reading and writing the file
\* ------------------------------------------------------------------------

\* open(file_path, 'r', encoding=...) and f.readlines() succeed with utf-8 or,
\* failing that, with gbk
Decodable(file) == file.enc \in {"utf-8", "gbk"}

\* `return 0, []` after the UnicodeDecodeError of both encodings
DecodeFailReturn == [count |-> 0, log |-> <<>>]

\* ShouldWrite without the test of self.dry_run
ShouldWrite_IgnoresDryRun(count, dry) == count > 0

\* `if removed_count > 0 and not self.dry_run`
ShouldWrite(count, dry) == count > 0 /\ ~dry

\* WriteFailReturn that returns what the scan counted
WriteFailReturn_KeepsCount(count, log) == [count |-> count, log |-> log]

\* `return 0, []` in the except branch of the write
WriteFailReturn(count, log) == [count |-> 0, log |-> <<>>]

\* `return removed_count, removed_comments`
NormalReturn(count, log) == [count |-> count, log |-> log]

\* the two open() calls and readlines(), then the locals are set up
ReadFile ==
  /\ pc = "read"
  /\ Decodable(disk[cur])
  /\ StartPass(disk[cur].lines)
  /\ pc' = "scan"
  /\ outcome' = "none"
  /\ ret' = NoReturn
  /\ UNCHANGED <<updater, config, counters, disk, disk0, cur, run>>

\* both encodings raise UnicodeDecodeError
ReadUndecodable ==
  /\ pc = "read"
  /\ ~Decodable(disk[cur])
  /\ StartPass(<<>>)
  /\ pc' = "ret"
  /\ outcome' = "decode_error"
  /\ ret' = DecodeFailReturn
  /\ UNCHANGED <<updater, config, counters, disk, disk0, cur, run>>

ScanDone == pc = "scan" /\ i = Len(lines)

\* nothing to write, or a dry run
ReturnUnwritten ==
  /\ ScanDone
  /\ ~ShouldWrite(removed_count, dry_run)
  /\ pc' = "ret"
  /\ outcome' = "unwritten"
  /\ ret' = NormalReturn(removed_count, removed_comments)
  /\ UNCHANGED <<updater, config, counters, disk, disk0, cur, run, locals>>

\* open(file_path, 'w', encoding='utf-8') truncates the file
OpenForWrite ==
  /\ ScanDone
  /\ ShouldWrite(removed_count, dry_run)
  /\ disk' = [disk EXCEPT ![cur] = [enc |-> "utf-8", lines |-> <<>>]]
  /\ pc' = "write"
  /\ UNCHANGED <<updater, config, counters, disk0, cur, run, locals, ret, outcome>>

\* open(file_path, 'w', encoding='utf-8') raises
OpenFails ==
  /\ ScanDone
  /\ ShouldWrite(removed_count, dry_run)
  /\ pc' = "ret"
  /\ outcome' = "write_error"
  /\ ret' = WriteFailReturn(removed_count, removed_comments)
  /\ UNCHANGED <<updater, config, counters, disk, disk0, cur, run, locals>>

\* f.writelines(new_lines): the next line reaches the file
WriteLine ==
  /\ pc = "write"
  /\ Len(disk[cur].lines) < Len(new_lines)
  /\ disk' = [disk EXCEPT ![cur].lines = Append(@, new_lines[Len(@) + 1])]
  /\ UNCHANGED <<updater, config, counters, disk0, cur, run, pc, locals, ret, outcome>>

\* f.writelines(new_lines) or the close of the file raises
WriteFails ==
  /\ pc = "write"
  /\ pc' = "ret"
  /\ outcome' = "write_error"
  /\ ret' = WriteFailReturn(removed_count, removed_comments)
  /\ UNCHANGED <<updater, config, counters, disk, disk0, cur, run, locals>>

\* the with block ends
CloseFile ==
  /\ pc = "write"
  /\ Len(disk[cur].lines) = Len(new_lines)
  /\ pc' = "ret"
  /\ outcome' = "written"
  /\ ret' = NormalReturn(removed_count, removed_comments)
  /\ UNCHANGED <<updater, config, counters, disk, disk0, cur, run, locals>>

\* ------------------------------------------------------------------------
\* CommentCleaner.clean_project and main
\* ------------------------------------------------------------------------

\* CountsAsModified with >= for >
CountsAsModified_Always(count) == count >= 0

\* `if removed_count > 0` of clean_project
CountsAsModified(count) == count > 0

\* the entries clean_project prints of a log of any length
DisplayLimit == 5

\* Shown without the limit
Shown_All(log) == log

\* removed_comments[:5]
Shown(log) == SubSeq(log, 1, IF Len(log) < DisplayLimit THEN Len(log) ELSE DisplayLimit)

\* the number in the line that `if len(removed_comments) > 5` prints, 0 when
\* it prints no such line
More(log) == IF Len(log) > DisplayLimit THEN Len(log) - DisplayLimit ELSE 0

\* the body of `for file_path in files_to_process` after clean_file returned
Account ==
  /\ pc = "ret"
  /\ IF CountsAsModified(ret.count)
     THEN /\ processed_files' = processed_files + 1
          /\ total_removed' = total_removed + ret.count
          /\ printed' = [count |-> ret.count, shown |-> Shown(ret.log), more |-> More(ret.log)]
     ELSE UNCHANGED <<processed_files, total_removed, printed>>
  /\ IF cur < Len(disk)
     THEN cur' = cur + 1 /\ pc' = "read"
     ELSE cur' = cur /\ pc' = "summary"
  /\ UNCHANGED <<updater, config, self_removed, disk, disk0, run, locals, ret, outcome>>

\* `self.removed_comments = total_removed` and the summary
Summarize ==
  /\ pc = "summary"
  /\ self_removed' = total_removed
  /\ pc' = "done"
  /\ UNCHANGED <<updater, config, processed_files, total_removed, printed, disk, disk0, cur, run, locals, ret, outcome>>

\* main is run a second time with the same flags: a new CommentCleaner
SecondRun ==
  /\ pc = "done"
  /\ run = 1
  /\ run' = 2
  /\ processed_files' = 0
  /\ self_removed' = 0
  /\ total_removed' = 0
  /\ printed' = NoReport
  /\ cur' = 1
  /\ pc' = "read"
  /\ UNCHANGED <<updater, config, disk, disk0, locals, ret, outcome>>

\* ------------------------------------------------------------------------
\* A run of the tool over a project
\* ------------------------------------------------------------------------

\* the number of files scan_directory finds
NumFiles == 2

\* the longest file, in lines
MaxFileLines == 1

\* an empty comment, dropped in both modes, and a comment after code, cut in
\* aggressive mode only
ProjectLines == { <<"/", "/", "\n">>, <<"x", " ", "/", "/", " ", "c", "\n">> }

FileContents(S, n) == UNION {[1..k -> S] : k \in 0..n}

\* utf-8 files, a file only gbk decodes and a file neither encoding decodes
ProjectFiles ==
  {[enc |-> "utf-8", lines |-> c] : c \in FileContents(ProjectLines, MaxFileLines)}
  \cup {[enc |-> "gbk", lines |-> << <<"/", "/", " ", "u521b", "u5efa", "\n">> >>]}
  \cup {[enc |-> "none", lines |-> << <<"/", "/", "xff", "\n">> >>]}

\* the state when clean_project enters its loop
StartRun ==
  /\ processed_files = 0
  /\ self_removed = 0
  /\ total_removed = 0
  /\ printed = NoReport
  /\ disk0 = disk
  /\ cur = 1
  /\ run = 1
  /\ pc = "read"
  /\ lines = <<>>
  /\ i = 0
  /\ j = 0
  /\ new_lines = <<>>
  /\ removed_comments = <<>>
  /\ removed_count = 0
  /\ in_string = FALSE
  /\ string_char = None
  /\ ret = NoReturn
  /\ outcome = "none"

Init ==
  /\ NoUpdater
  /\ dry_run \in BOOLEAN
  /\ aggressive \in BOOLEAN
  /\ disk \in [1..NumFiles -> ProjectFiles]
  /\ StartRun

Next ==
  \/ ReadFile
  \/ ReadUndecodable
  \/ ProcessLine
  \/ ReturnUnwritten
  \/ OpenForWrite
  \/ OpenFails
  \/ WriteLine
  \/ WriteFails
  \/ CloseFile
  \/ Account
  \/ Summarize

Spec == Init /\ [][Next]_vars

\* ------------------------------------------------------------------------
\* The tool run twice, in execute mode, on one file, every write succeeding
\* ------------------------------------------------------------------------

\* the longest file, in lines
MaxPassLines == 4

\* a lone quote, a comment with a quote in it, an empty comment, a comment
\* after code
PassLines ==
  { <<"'", "\n">>,
    <<"/", "/", " ", "i", "'", "/", "/", "\n">>,
    <<"/", "/", "\n">>,
    <<"x", " ", "/", "/", " ", "c", "\n">> }

InitPass ==
  /\ NoUpdater
  /\ dry_run = FALSE
  /\ aggressive \in BOOLEAN
  /\ \E c \in FileContents(PassLines, MaxPassLines) : disk = <<[enc |-> "utf-8", lines |-> c]>>
  /\ StartRun

NextPass ==
  \/ ReadFile
  \/ ProcessLine
  \/ ReturnUnwritten
  \/ OpenForWrite
  \/ WriteLine
  \/ CloseFile
  \/ Account
  \/ Summarize
  \/ SecondRun

SpecPass == InitPass /\ [][NextPass]_vars

\* ------------------------------------------------------------------------
\* A run of the tool over one file long enough for the report to be cut
\* ------------------------------------------------------------------------

\* the longest file, in lines
MaxReportLines == 6

\* an empty comment and a comment after code
ReportLines == { <<"/", "/", "\n">>, <<"x", " ", "/", "/", " ", "c", "\n">> }

ReportFiles ==
  {[enc |-> "utf-8", lines |-> c] : c \in FileContents(ReportLines, MaxReportLines)}
  \cup {[enc |-> "none", lines |-> << <<"/", "/", "xff", "\n">> >>]}

InitReport ==
  /\ NoUpdater
  /\ dry_run \in BOOLEAN
  /\ aggressive \in BOOLEAN
  /\ \E f \in ReportFiles : disk = <<f>>
  /\ StartRun

SpecReport == InitReport /\ [][Next]_vars

\* ------------------------------------------------------------------------
\* VersionUpdater: the three files
\* ------------------------------------------------------------------------

\* the keys of the versions dictionary, in the order the files are updated
MetaFiles == <<"package.json", "tauri.conf.json", "Cargo.toml">>

\* no version: a file without one, new_version before it is set, the None
\* increment_version returns
NoVersion == <<>>

\* 'unknown'
Unknown == <<"u", "n", "k", "n", "o", "w", "n">>

\* the default of current_versions.get('package.json', '1.0.0')
DefaultBase == <<"1", ".", "0", ".", "0">>

\* a file that does not exist
Missing == [kind |-> "missing", version |-> NoVersion, layout |-> "none"]

\* a file whose text json.load rejects and no pattern matches: the text of
\* a file a failed write left, too
Broken == [kind |-> "broken", version |-> NoVersion, layout |-> "none"]

\* what json.dump(data, f, indent=2, ensure_ascii=False) leaves: the object
\* with its version, laid out anew
Dumped(version) == [kind |-> "ok", version |-> version, layout |-> "dumped"]

\* get_current_versions raises: json.load of a file that exists fails
ReadRaises(m) ==
  \/ m["package.json"].kind = "broken"
  \/ m["tauri.conf.json"].kind = "broken"

\* versions[f] of get_current_versions, for a file that exists
CurrentVersion(file) == IF file.version = NoVersion THEN Unknown ELSE file.version

\* get_current_versions: the files that exist, with their versions
get_current_versions(m) ==
  [f \in {MetaFiles[k] : k \in {n \in 1..Len(MetaFiles) : m[MetaFiles[n]].kind # "missing"}} |->
     CurrentVersion(m[f])]

\* ------------------------------------------------------------------------
\* VersionUpdater.validate_version and increment_version
\* ------------------------------------------------------------------------

\* [a-zA-Z0-9.-]
IsIdentChar(c) ==
  c \in LowerLetters \/ c \in UpperLetters \/ c \in Digits \/ c = "." \/ c = "-"

\* the position after the run of [a-zA-Z0-9.-] that starts at k
RECURSIVE SkipIdent(_, _)
SkipIdent(s, k) == IF k <= Len(s) /\ IsIdentChar(s[k]) THEN SkipIdent(s, k + 1) ELSE k

\* the position after \d+ at k, 0 when no digit is there
AfterNumber(s, k) == IF k >= 1 /\ k <= Len(s) /\ IsDigit(s[k]) THEN SkipDigits(s, k) ELSE 0

\* the position after the literal character c at k, 0 when it is not there
AfterChar(s, k, c) == IF k >= 1 /\ k <= Len(s) /\ s[k] = c THEN k + 1 ELSE 0

\* the position after (c[a-zA-Z0-9.-]+)? at k: the group is taken when it
\* matches, since the character that follows it is not in the class
AfterOptionalPart(s, k, c) ==
  IF k >= 1 /\ k + 1 <= Len(s) /\ s[k] = c /\ IsIdentChar(s[k + 1])
  THEN SkipIdent(s, k + 1)
  ELSE k

\* re.match(r'^\d+\.\d+\.\d+(-[a-zA-Z0-9.-]+)?(\+[a-zA-Z0-9.-]+)?$', version)
validate_version(version) ==
  LET a == AfterNumber(version, 1)
      b == AfterNumber(version, AfterChar(version, a, "."))
      c == AfterNumber(version, AfterChar(version, b, "."))
  IN  /\ c # 0
      /\ AfterOptionalPart(version, AfterOptionalPart(version, c, "-"), "+") = Len(version) + 1

\* version.split('.')
RECURSIVE Split(_, _)
Split(s, cur_part) ==
  IF s = <<>> THEN <<cur_part>>
  ELSE IF Head(s) = "." THEN <<cur_part>> \o Split(Tail(s), <<>>)
  ELSE Split(Tail(s), Append(cur_part, Head(s)))

DigitChars == <<"0", "1", "2", "3", "4", "5", "6", "7", "8", "9">>

DigitValue(c) == CHOOSE n \in 0..9 : DigitChars[n + 1] = c

\* int(part) returns: the part is a run of digits between blanks (the
\* versions of the model hold no sign or underscore, which int() accepts too)
ParsesAsInt(part) == strip(part) # <<>> /\ \A k \in 1..Len(strip(part)) : IsDigit(strip(part)[k])

\* the number a run of digits denotes
RECURSIVE DigitsValue(_)
DigitsValue(ds) ==
  IF ds = <<>> THEN 0
  ELSE 10 * DigitsValue(SubSeq(ds, 1, Len(ds) - 1)) + DigitValue(ds[Len(ds)])

\* int(part)
IntOf(part) == DigitsValue(strip(part))

\* f"{n}"
RECURSIVE Format(_)
Format(n) == IF n < 10 THEN <<DigitChars[n + 1]>> ELSE Format(n \div 10) \o <<DigitChars[(n % 10) + 1]>>

\* increment_version raises ValueError in map(int, parts)
IncrementRaises(version) ==
  /\ Len(Split(version, <<>>)) = 3
  /\ \E k \in 1..3 : ~ParsesAsInt(Split(version, <<>>)[k])

\* increment_version(version, increment_type), NoVersion where it returns
\* None: the version has not three parts
increment_version(version, increment_type) ==
  LET parts == Split(version, <<>>)
  IN  IF Len(parts) # 3 THEN NoVersion
      ELSE LET major == IntOf(parts[1])
               minor == IntOf(parts[2])
               patch == IntOf(parts[3])
               dot   == <<".">>
           IN  CASE increment_type = "major" -> Format(major + 1) \o dot \o Format(0) \o dot \o Format(0)
                 [] increment_type = "minor" -> Format(major) \o dot \o Format(minor + 1) \o dot \o Format(0)
                 [] increment_type = "patch" -> Format(major) \o dot \o Format(minor) \o dot \o Format(patch + 1)
                 [] OTHER -> Format(major) \o dot \o Format(minor) \o dot \o Format(patch)

\* ------------------------------------------------------------------------
\* VersionUpdater.update_package_json, update_tauri_conf, update_cargo_toml
\* ------------------------------------------------------------------------

\* the write of a file by open(path, 'w') and json.dump or f.write: it ends
\* ("none"), open raises and the file is as it was ("open"), or the file is
\* truncated and the write raises ("write")
WriteFailures == {"none", "open", "write"}

\* update_package_json and update_tauri_conf: the file after the call, and
\* whether the call raised
update_json(file, version, failure) ==
  IF file.kind # "ok" THEN [file |-> file, raised |-> TRUE]
  ELSE IF failure = "open" THEN [file |-> file, raised |-> TRUE]
  ELSE IF failure = "write" THEN [file |-> Broken, raised |-> TRUE]
  ELSE [file |-> Dumped(version), raised |-> FALSE]

\* update_cargo_toml: re.sub replaces the version of the [package] section
\* when the pattern finds one, and the text is written back in either case
update_cargo_toml(file, version, failure) ==
  IF file.kind = "missing" THEN [file |-> file, raised |-> TRUE]
  ELSE IF failure = "open" THEN [file |-> file, raised |-> TRUE]
  ELSE IF failure = "write" THEN [file |-> Broken, raised |-> TRUE]
  ELSE [file |-> IF file.version = NoVersion THEN file ELSE [file EXCEPT !.version = version],
        raised |-> FALSE]

\* the try block of confirm_and_update: the three calls in order, up to the
\* first that raises; the write of file number `failing` fails as `failure`
UpdateAll(m, version, failing, failure) ==
  LET p  == update_json(m["package.json"], version, IF failing = 1 THEN failure ELSE "none")
      m1 == [m EXCEPT !["package.json"] = p.file]
      t  == update_json(m["tauri.conf.json"], version, IF failing = 2 THEN failure ELSE "none")
      m2 == [m1 EXCEPT !["tauri.conf.json"] = t.file]
      c  == update_cargo_toml(m["Cargo.toml"], version, IF failing = 3 THEN failure ELSE "none")
      m3 == [m2 EXCEPT !["Cargo.toml"] = c.file]
  IN  IF p.raised THEN [meta |-> m1, raised |-> TRUE]
      ELSE IF t.raised THEN [meta |-> m2, raised |-> TRUE]
      ELSE [meta |-> m3, raised |-> c.raised]

\* ------------------------------------------------------------------------
\* VersionUpdater.run and the prompts
\* ------------------------------------------------------------------------

\* the lines the user types at the menus
MenuInputs == { <<"1">>, <<"2">>, <<" ", "3", " ">>, <<"x">> }

\* the lines the user types for a version
VersionInputs == { <<>>, <<" ", " ">>, <<"1", ".", "0", ".", "2">>, <<" ", "2", ".", "0", ".", "0", "-", "r", "c", ".", "1", "+", "b", "5", " ">>, <<"1", ".", "0">>, <<"v", "1", ".", "0", ".", "2">>, <<"1", ".", "0", ".", "2", "-">> }

\* the lines the user types at the confirmation
ConfirmInputs == { <<"y">>, <<"Y", "E", "S">>, <<"u662f">>, <<"n">>, <<>> }

increment_map == [c \in {<<"1">>, <<"2">>, <<"3">>} |->
                    IF c = <<"1">> THEN "major" ELSE IF c = <<"2">> THEN "minor" ELSE "patch"]

\* Affirmative that takes every answer
Affirmative_Any(confirm) == TRUE

\* `confirm in ['y', 'yes', '是']`
Affirmative(confirm) == confirm \in {<<"y">>, <<"y", "e", "s">>, <<"u662f">>}

\* run(): the versions are read and shown, then the menu is answered
run_menu ==
  /\ prompt = "MainMenu"
  /\ IF ReadRaises(meta)
     THEN /\ prompt' = "Done"
          /\ result' = "crashed"
          /\ answer' = answer
     ELSE \E text \in MenuInputs :
            LET choice == strip(text)
            IN  /\ answer' = text
                /\ prompt' = CASE choice = <<"1">> -> "ManualInput"
                               [] choice = <<"2">> -> "AutoIncrement"
                               [] choice = <<"3">> -> "Done"
                               [] OTHER -> "MainMenu"
                /\ result' = CASE choice = <<"1">> -> "manual"
                               [] choice = <<"2">> -> "auto"
                               [] choice = <<"3">> -> "exit"
                               [] OTHER -> "invalid_choice"
  /\ UNCHANGED <<cleaner, meta, meta0, new_version>>

\* one turn of the loop of manual_version_input
manual_version_input ==
  /\ prompt = "ManualInput"
  /\ \E text \in VersionInputs :
       LET version == strip(text)
       IN  /\ answer' = text
           /\ IF version = <<>>
              THEN /\ result' = "empty_version"
                   /\ UNCHANGED <<prompt, new_version>>
              ELSE IF ~validate_version(version)
              THEN /\ result' = "invalid_version"
                   /\ UNCHANGED <<prompt, new_version>>
              ELSE /\ result' = "version"
                   /\ new_version' = version
                   /\ prompt' = "Confirm"
  /\ UNCHANGED <<cleaner, meta, meta0>>

\* auto_increment_version after its prompt is answered
auto_increment_version ==
  /\ prompt = "AutoIncrement"
  /\ \E text \in MenuInputs :
       LET increment_choice == strip(text)
           current_versions == get_current_versions(meta)
           base_version == IF "package.json" \in DOMAIN current_versions
                           THEN current_versions["package.json"]
                           ELSE DefaultBase
       IN  /\ answer' = text
           /\ IF increment_choice \notin DOMAIN increment_map
              THEN /\ result' = "invalid_choice"
                   /\ prompt' = "Done"
                   /\ UNCHANGED new_version
              ELSE IF IncrementRaises(base_version)
              THEN /\ result' = "crashed"
                   /\ prompt' = "Done"
                   /\ UNCHANGED new_version
              ELSE IF increment_version(base_version, increment_map[increment_choice]) = NoVersion
              THEN /\ result' = "format_error"
                   /\ prompt' = "Done"
                   /\ UNCHANGED new_version
              ELSE /\ result' = "version"
                   /\ new_version' = increment_version(base_version, increment_map[increment_choice])
                   /\ prompt' = "Confirm"
  /\ UNCHANGED <<cleaner, meta, meta0>>

\* confirm_and_update after its prompt is answered
confirm_and_update ==
  /\ prompt = "Confirm"
  /\ \E text \in ConfirmInputs :
       LET confirm == lower(strip(text))
       IN  /\ answer' = text
           /\ IF Affirmative(confirm)
              THEN \E failing \in 0..Len(MetaFiles), failure \in WriteFailures :
                     /\ (failing = 0) = (failure = "none")
                     /\ meta' = UpdateAll(meta, new_version, failing, failure).meta
                     /\ result' = IF UpdateAll(meta, new_version, failing, failure).raised
                                  THEN "update_failed" ELSE "updated"
              ELSE /\ meta' = meta
                   /\ result' = "cancelled"
  /\ prompt' = "Done"
  /\ UNCHANGED <<cleaner, meta0, new_version>>

\* ------------------------------------------------------------------------
\* A run of the version updater
\* ------------------------------------------------------------------------

\* the versions the files hold
FileVersions == { <<"1", ".", "0", ".", "1">>, <<"1", ".", "9", ".", "0", "9">>, <<"1", ".", "0", ".", "0", "-", "b", "e", "t", "a">>, <<"1", ".", "0">> }

\* package.json and tauri.conf.json: missing, not JSON, JSON without a
\* version, JSON with a version in the layout json.dump writes or in another
JsonFiles ==
  {Missing, Broken, [kind |-> "ok", version |-> NoVersion, layout |-> "hand"]}
  \cup {[kind |-> "ok", version |-> v, layout |-> l] : v \in FileVersions, l \in {"hand", "dumped"}}

\* Cargo.toml: missing, without a [package] version the pattern finds, with
\* one
CargoFiles ==
  {Missing, [kind |-> "ok", version |-> NoVersion, layout |-> "hand"]}
  \cup {[kind |-> "ok", version |-> v, layout |-> "hand"] : v \in FileVersions}

\* the cleaner is not run
NoCleaner ==
  /\ dry_run = TRUE
  /\ aggressive = FALSE
  /\ disk = <<>>
  /\ StartRun

InitVersion ==
  /\ NoCleaner
  /\ \E p \in JsonFiles, t \in JsonFiles, c \in CargoFiles :
       /\ p.layout = t.layout \/ "none" \in {p.layout, t.layout}
       /\ meta = [f \in {MetaFiles[k] : k \in 1..Len(MetaFiles)} |->
                    IF f = "package.json" THEN p ELSE IF f = "tauri.conf.json" THEN t ELSE c]
  /\ meta0 = meta
  /\ prompt = "MainMenu"
  /\ answer = <<>>
  /\ new_version = NoVersion
  /\ result = "none"

NextVersion ==
  \/ run_menu
  \/ manual_version_input
  \/ auto_increment_version
  \/ confirm_and_update

SpecVersion == InitVersion /\ [][NextVersion]_vars

\* ------------------------------------------------------------------------
\* Properties
\* ------------------------------------------------------------------------

\* the scan of line i ended at a marker
MarkerFound == i >= 1 /\ j < Len(lines[i])

\* line k has an entry in the removal log
Logged(k) == \E e \in 1..Len(removed_comments) : removed_comments[e].lineno = k

\* the lines before line k that were dropped
DroppedBefore(k) ==
  Cardinality({e \in 1..Len(removed_comments) :
                 removed_comments[e].lineno < k /\ ~removed_comments[e].inline})

\* line k is in the output as it was read
KeptUnchanged(k) ==
  /\ ~Logged(k)
  /\ k - DroppedBefore(k) \in 1..Len(new_lines)
  /\ new_lines[k - DroppedBefore(k)] = lines[k]

\* line k is not in the output
Dropped(k) ==
  /\ \E e \in 1..Len(removed_comments) :
        removed_comments[e].lineno = k /\ ~removed_comments[e].inline
  /\ Len(new_lines) = i - DroppedBefore(i + 1)

\* C1: in normal mode every line read so far that matches a preserve pattern
\* (tag, eslint-/prettier- directive, TODO:/FIXME:/NOTE:/HACK:/XXX:,
\* Copyright/License/Author, URL, numbered item, bullet item, separator run)
\* is in the output unchanged and has no entry in the removal log, whatever
\* the remove patterns and the useless-phrase table say about it.
C1_PreservePrecedence ==
  (pc = "scan" /\ ~aggressive) =>
    \A k \in 1..i : MatchesPreservePattern(lines[k]) => KeptUnchanged(k)

\* a line that a preserve pattern and a remove pattern both match was scanned
\* from outside a string in normal mode, and is kept
C1_Witness ==
  /\ pc = "scan" /\ i = 2 /\ ~aggressive
  /\ MarkerFound
  /\ MatchesPreservePattern(lines[2])
  /\ MatchesRemovePattern(lines[2])
  /\ new_lines = lines

\* the position of the last character of s that is no white space, 0 if none
LastNonSpace(s) ==
  IF \E k \in 1..Len(s) : ~IsSpace(s[k])
  THEN CHOOSE k \in 1..Len(s) : ~IsSpace(s[k]) /\ \A m \in (k + 1)..Len(s) : IsSpace(s[m])
  ELSE 0

\* C4: in aggressive mode, when the scan of a line ends at a marker, one
\* removal is logged for the line and: if the text before the marker holds a
\* character that is no white space, the output line is that text up to its
\* last such character followed by a line feed, and the number of output lines
\* is the number of input lines; otherwise the line is not in the output.
C4_AggressiveCut ==
  (pc = "scan" /\ i = 2 /\ aggressive /\ MarkerFound) =>
    LET prefix == SubSeq(lines[2], 1, j)
        last   == LastNonSpace(prefix)
    IN  /\ removed_count = 1
        /\ Len(removed_comments) = 1
        /\ IF last > 0
           THEN new_lines = <<lines[1], SubSeq(prefix, 1, last) \o <<"\n">>>>
           ELSE new_lines = <<lines[1]>>

\* a line with code, blanks and then the marker was cut in aggressive mode
C4_Witness ==
  /\ pc = "scan" /\ i = 2 /\ aggressive /\ MarkerFound
  /\ j >= 2 /\ IsSpace(lines[2][j]) /\ ~IsSpace(lines[2][1])
  /\ Len(new_lines) = 2
  /\ Len(new_lines[2]) < j + 1
  /\ removed_comments[1].inline

\* the quote state before each character of a text lexed on its own by the
\* rules of the language, and after the last: a quote opens a string, the same
\* quote closes it unless a backslash escapes it, and `//` outside a string
\* starts a comment that runs to the end
RECURSIVE LiteralStates(_, _, _, _)
LiteralStates(s, k, q, esc) ==
  IF k > Len(s) THEN <<q>>
  ELSE <<q>> \o
       ( IF q = "comment" THEN LiteralStates(s, k + 1, q, FALSE)
         ELSE IF q = None
              THEN IF s[k] \in Quotes THEN LiteralStates(s, k + 1, s[k], FALSE)
                   ELSE IF StartsWithAt(s, k, Marker) THEN LiteralStates(s, k + 1, "comment", FALSE)
                   ELSE LiteralStates(s, k + 1, None, FALSE)
              ELSE IF esc THEN LiteralStates(s, k + 1, q, FALSE)
                   ELSE IF s[k] = "\\" THEN LiteralStates(s, k + 1, q, TRUE)
                   ELSE IF s[k] = q THEN LiteralStates(s, k + 1, None, FALSE)
                   ELSE LiteralStates(s, k + 1, q, FALSE) )

\* position p of s lies in a string literal that is closed on the line
InClosedString(s, p) ==
  LET st == LiteralStates(s, 1, None, FALSE)
  IN  /\ st[p] \in Quotes
      /\ \E m \in p..Len(s) : st[m + 1] = None

\* C5: in both modes the scan of a line never ends at a `//` that lies in a
\* string literal closed on that line.
C5_NoMarkerInsideString ==
  (pc = "scan" /\ i = 2 /\ MarkerFound) => ~InClosedString(lines[2], j + 1)

\* the text, lexed on its own, ends inside a string literal
EndsInString(s) == LiteralStates(s, 1, None, FALSE)[Len(s) + 1] \in Quotes

\* C6: in aggressive mode the code kept on a line cut at the marker holds no
\* string literal that is left open (stated for the lines that themselves
\* leave no string literal open).
C6_KeptPrefixClosed ==
  (pc = "scan" /\ i = 2 /\ aggressive /\ MarkerFound /\ Len(new_lines) = 2
     /\ ~EndsInString(lines[2])) =>
    ~EndsInString(code_part(lines[2], j))

\* the text after the marker of a line that starts with it, trimmed
C7_Body(line) == strip(From(strip(line), 3))

C7_WholeLineComment(line) == StartsWithAt(strip(line), 1, Marker)

\* white space and then a word character follow the marker
C7_GeneralDescription(line) ==
  /\ Len(strip(line)) >= 3
  /\ IsSpace(strip(line)[3])
  /\ C7_Body(line) # <<>>
  /\ IsWord(C7_Body(line)[1])

\* the cases the claim is about: a whole-line comment of normal mode, a
\* line no preserve rule, block-comment test or keyword keeps
C7_Case ==
  /\ pc = "scan" /\ i = 2 /\ ~aggressive
  /\ C7_WholeLineComment(lines[2])
  /\ ~should_preserve_comment(lines[2])

\* C7 as stated: such a comment is dropped only when its body is empty, or
\* begins with a useless phrase, or is shorter than the minimum length.
C7_DroppedOnlyIfUselessOrShort ==
  (C7_Case /\ Dropped(2)) =>
    \/ C7_Body(lines[2]) = <<>>
    \/ IsUseless(C7_Body(lines[2]))
    \/ Len(C7_Body(lines[2])) < MinCommentLen

\* C7 as amended: such a comment is dropped only when its body is empty, or
\* white space and then a word character follow the marker, or its body
\* begins with a useless phrase, or is shorter than the minimum length; every
\* other such comment is kept unchanged.
C7_DroppedOnlyIfRemoveRule ==
  C7_Case =>
    \/ C7_Body(lines[2]) = <<>>
    \/ C7_GeneralDescription(lines[2])
    \/ (\E k \in 1..Len(useless_patterns) :
          \E a \in 1..Len(useless_patterns[k]) :
            StartsWithAt(lower(C7_Body(lines[2])), 1, lower(useless_patterns[k][a])))
    \/ Len(C7_Body(lines[2])) < MinCommentLen
    \/ KeptUnchanged(2)

\* a comment of two characters that begins with no useless phrase and has no
\* blank after the marker was kept
C7_Witness ==
  /\ C7_Case /\ MarkerFound
  /\ Len(C7_Body(lines[2])) = MinCommentLen
  /\ ~C7_GeneralDescription(lines[2])
  /\ KeptUnchanged(2)

\* clean_file is about to return to clean_project
Returning == pc = "ret"

\* C2: a dry run leaves every file as it was, whatever the scan counted; in
\* execute mode clean_file opens the file for writing if and only if the scan
\* counted at least one removal, a file that was not opened for writing is as
\* it was, and a file whose write ended holds the new lines, which differ from
\* the old.
C2_WriteIffRemoval ==
  /\ dry_run => disk = disk0
  /\ (Returning /\ ~dry_run /\ outcome # "decode_error") =>
       (outcome \in {"written", "write_error"} <=> removed_count > 0)
  /\ (Returning /\ outcome \in {"unwritten", "decode_error"}) => disk[cur] = disk0[cur]
  /\ (Returning /\ outcome = "written") =>
       (disk[cur].lines = new_lines /\ disk[cur].lines # disk0[cur].lines)

\* a dry run counted a removal in a file and left it as it was
C2_Witness ==
  /\ Returning /\ dry_run
  /\ removed_count >= 1
  /\ ret.count = removed_count
  /\ disk[cur] = disk0[cur]

\* C3: in normal mode the pass of the second run over a file, which reads what
\* the pass of the first run left, counts and logs no removal.
C3_SecondPassRemovesNothing ==
  (run = 2 /\ Returning /\ ~aggressive) =>
    (removed_count = 0 /\ removed_comments = <<>>)

\* C8: when neither encoding decodes a file, clean_file returns zero removals
\* and an empty log, has processed no line and has not written the file; then
\* clean_project counts neither the file nor any removal and goes on to the
\* next file, or to the summary after the last.
C8_UndecodableSkipped ==
  /\ []( (Returning /\ outcome = "decode_error") =>
           /\ ret = [count |-> 0, log |-> <<>>]
           /\ i = 0 /\ new_lines = <<>>
           /\ disk[cur] = disk0[cur] )
  /\ [][ (Returning /\ outcome = "decode_error") =>
           /\ processed_files' = processed_files
           /\ total_removed' = total_removed
           /\ disk' = disk
           /\ IF cur < Len(disk)
              THEN pc' = "read" /\ cur' = cur + 1
              ELSE pc' = "summary" ]_vars

\* an undecodable file was skipped and another file follows it
C8_Witness ==
  /\ Returning /\ outcome = "decode_error"
  /\ cur < Len(disk)
  /\ Decodable(disk[cur + 1])

\* C9: when the write of a file fails in execute mode after a scan that
\* counted removals, clean_file returns zero removals; then clean_project
\* counts neither the file nor its removals and goes on to the next file, or
\* to the summary after the last.
C9_WriteFailureNotCounted ==
  /\ []( (Returning /\ outcome = "write_error") =>
           (~dry_run /\ removed_count > 0 /\ ret.count = 0 /\ ret.log = <<>>) )
  /\ [][ (Returning /\ outcome = "write_error") =>
           /\ processed_files' = processed_files
           /\ total_removed' = total_removed
           /\ IF cur < Len(disk)
              THEN pc' = "read" /\ cur' = cur + 1
              ELSE pc' = "summary" ]_vars

\* the write of a file with removals failed and another file follows it
C9_Witness ==
  /\ Returning /\ outcome = "write_error"
  /\ removed_count > 0
  /\ cur < Len(disk)

\* C10: after a failed write the file holds all of its old lines or all of
\* its new lines.
C10_OldOrNewContent ==
  (Returning /\ outcome = "write_error") =>
    \/ disk[cur].lines = disk0[cur].lines
    \/ disk[cur].lines = new_lines

\* the quote state the first line leaves, in which the second line is entered
EnteringState == ScanFrom(lines[1], 0, FALSE, None)

\* the quote state after the first k characters of the second line
StateAfterChars(k) ==
  ScanFrom(SubSeq(lines[2], 1, k), 0, EnteringState.in_string, EnteringState.string_char)

\* the number of backslashes in a row that end at position k of a text
RECURSIVE BackslashRun(_, _)
BackslashRun(s, k) ==
  IF k >= 1 /\ s[k] = "\\" THEN 1 + BackslashRun(s, k - 1) ELSE 0

\* the character at position k is preceded by a backslash that no backslash
\* escapes
AfterUnescapedBackslash(s, k) == BackslashRun(s, k - 1) % 2 = 1

\* C11: every quote character the scan of a line passes leaves the quote
\* state as it was when an unescaped backslash precedes it or when the scan is
\* inside a string that another quote character opened; every other quote
\* character opens a string of its kind when the scan is outside a string and
\* closes the string when the scan is inside one.
C11_QuoteToggles ==
  (pc = "scan" /\ i = 2) =>
    \A k \in 1..j :
      lines[2][k] \in Quotes =>
        LET before == StateAfterChars(k - 1)
            after  == StateAfterChars(k)
        IN  IF \/ AfterUnescapedBackslash(lines[2], k)
               \/ (before.in_string /\ before.string_char # lines[2][k])
            THEN /\ after.in_string = before.in_string
                 /\ after.string_char = before.string_char
            ELSE /\ after.in_string = ~before.in_string
                 /\ after.string_char = (IF before.in_string THEN None ELSE lines[2][k])

\* the quote state after the first k lines of the file: outside any string
\* before line 1, then what the scan of each line leaves
RECURSIVE StateAfterLines(_)
StateAfterLines(k) ==
  IF k = 0 THEN [in_string |-> FALSE, string_char |-> None]
  ELSE LET e == StateAfterLines(k - 1)
           r == ScanFrom(lines[k], 0, e.in_string, e.string_char)
       IN  [in_string |-> r.in_string, string_char |-> r.string_char]

\* the indexes (from 0) of line k at which `//` occurs while the scan, which
\* entered the line in the state the line before left, is outside a string
UnquotedMarkers(k) ==
  {p \in 0..(Len(lines[k]) - 2) :
     /\ StartsWithAt(lines[k], p + 1, Marker)
     /\ ~ScanFrom(SubSeq(lines[k], 1, p), 0,
                  StateAfterLines(k - 1).in_string,
                  StateAfterLines(k - 1).string_char).in_string}

\* C12: the pass starts line 1 outside any string; after each line the quote
\* state is the one that line's scan left, and it is the state in which the
\* next line is scanned; the scan of a line ends at the smallest index at
\* which `//` occurs outside a string, or at the end of the line when there is
\* none; a line has at most one entry in the removal log, and only a line
\* with such an index has one.
C12_StateCarriedFirstMarker ==
  pc = "scan" =>
    /\ i = 0 => (~in_string /\ string_char = None)
    /\ in_string = StateAfterLines(i).in_string
    /\ string_char = StateAfterLines(i).string_char
    /\ i >= 1 =>
         IF UnquotedMarkers(i) = {}
         THEN j = Len(lines[i])
         ELSE /\ j \in UnquotedMarkers(i)
              /\ \A p \in UnquotedMarkers(i) : j <= p
    /\ removed_count <= i
    /\ \A a, b \in 1..Len(removed_comments) :
         a # b => removed_comments[a].lineno # removed_comments[b].lineno
    /\ \A a \in 1..Len(removed_comments) :
         UnquotedMarkers(removed_comments[a].lineno) # {}

\* a line entered inside a string holds a `//` the scan passes, then the
\* quote that closes the string and a `//` at which the scan ends
C12_Witness ==
  /\ pc = "scan" /\ i >= 2
  /\ StateAfterLines(i - 1).in_string
  /\ StartsWithAt(lines[i], 1, Marker)
  /\ j > 0 /\ j < Len(lines[i])
  /\ j \in UnquotedMarkers(i)
  /\ ~in_string

\* C13: in normal mode a line in the output is the input line unchanged, and
\* a line with a character that is no white space before the marker its scan
\* ended at is in the output; a line is cut at the marker only in aggressive
\* mode and only when such a character precedes the marker.
C13_NormalModeKeepsCode ==
  (pc = "scan" /\ i = 2) =>
    /\ ~aggressive =>
         /\ Len(new_lines) = 2 => new_lines[2] = lines[2]
         /\ (MarkerFound /\ LastNonSpace(SubSeq(lines[2], 1, j)) > 0) => KeptUnchanged(2)
    /\ \A e \in 1..Len(removed_comments) :
         removed_comments[e].inline =>
           (aggressive /\ LastNonSpace(SubSeq(lines[2], 1, j)) > 0)

\* the line holds `/*` or `*/`, or its trimmed text starts with `*`, or it
\* holds an important keyword in any case
C14_Protected(line) ==
  \/ Contains(line, <<"/", "*">>)
  \/ Contains(line, <<"*", "/">>)
  \/ (strip(line) # <<>> /\ strip(line)[1] = "*")
  \/ \E k \in 1..Len(important_keywords) : Contains(lower(line), important_keywords[k])

\* C14: in normal mode a line that holds `/*` or `*/`, or whose trimmed text
\* starts with `*`, or that holds an important keyword in any case, is in the
\* output unchanged and has no entry in the removal log, whatever its comment
\* body is.
C14_BlockAndKeywordKept ==
  (pc = "scan" /\ i = 2 /\ ~aggressive /\ C14_Protected(lines[2])) => KeptUnchanged(2)

\* a whole-line comment that no preserve pattern matches, whose body begins
\* with a useless phrase and that holds `*/` and no keyword, was kept
C14_Witness ==
  /\ pc = "scan" /\ i = 2 /\ ~aggressive /\ MarkerFound
  /\ C7_WholeLineComment(lines[2])
  /\ ~MatchesPreservePattern(lines[2])
  /\ IsUseless(C7_Body(lines[2]))
  /\ Contains(lines[2], <<"*", "/">>)
  /\ ~HasImportantKeyword(lines[2])
  /\ KeptUnchanged(2)

\* the output line is what is left of the input line after a cut: some of
\* its first characters and a line feed
IsCut(line, out) ==
  /\ out # line
  /\ \E p \in 1..Len(line) : out = SubSeq(line, 1, p) \o <<"\n">>

\* the number of the input lines a that are not in the output b unchanged:
\* the lines left out and the lines cut
RECURSIVE Altered(_, _)
Altered(a, b) ==
  IF a = <<>> THEN 0
  ELSE IF b # <<>> /\ Head(b) = Head(a) THEN Altered(Tail(a), Tail(b))
  ELSE IF b # <<>> /\ IsCut(Head(a), Head(b)) THEN 1 + Altered(Tail(a), Tail(b))
  ELSE 1 + Altered(Tail(a), b)

\* what clean_project printed about the one file of the run is the count
\* clean_file returned, the first entries of the log up to the display limit,
\* and the number of the entries beyond the limit when there are any
C15_ReportExact ==
  (pc = "summary" /\ ret.count > 0) =>
    /\ printed.count = ret.count
    /\ Len(printed.shown) <= DisplayLimit
    /\ \A e \in 1..Len(printed.shown) : printed.shown[e] = ret.log[e]
    /\ Len(printed.shown) + printed.more = ret.count
    /\ printed.more > 0 => Len(printed.shown) = DisplayLimit

\* C15 as stated: whenever clean_file returns, the count it returns is the
\* number of entries of the log it returns and the number of input lines that
\* the pass left out or cut; the report shows at most the display limit of
\* entries and the exact count.
C15_CountIsLogIsAltered ==
  /\ Returning =>
       /\ ret.count = Len(ret.log)
       /\ ret.count = Altered(lines, new_lines)
  /\ C15_ReportExact

\* C15 as amended: whenever clean_file returns without a failed write, the
\* count it returns is the number of entries of the log it returns, the
\* number of entries the pass logged and the number of input lines that the
\* pass left out or cut, and no line has two entries; after a failed write it
\* returns zero and an empty log; the report shows at most the display limit
\* of entries and the exact count.
C15_CountExactUnlessWriteFails ==
  /\ (Returning /\ outcome # "write_error") =>
       /\ ret.count = Len(ret.log)
       /\ ret.count = removed_count
       /\ ret.log = removed_comments
       /\ ret.count = Altered(lines, new_lines)
       /\ \A a, b \in 1..Len(ret.log) : a # b => ret.log[a].lineno # ret.log[b].lineno
  /\ (Returning /\ outcome = "write_error") =>
       /\ ret.count = 0
       /\ ret.log = <<>>
       /\ Altered(lines, new_lines) > 0
  /\ C15_ReportExact

\* a pass logged more removals than the display limit, lines left out and
\* lines cut among them, and the report shows the limit of entries and the
\* exact count
C15_Witness ==
  /\ pc = "summary"
  /\ ret.count > DisplayLimit
  /\ ret.count = Altered(lines, new_lines)
  /\ \E e \in 1..Len(ret.log) : ret.log[e].inline
  /\ \E e \in 1..Len(ret.log) : ~ret.log[e].inline
  /\ printed.count = ret.count
  /\ Len(printed.shown) = DisplayLimit
  /\ printed.more = ret.count - DisplayLimit

\* the answers confirm_and_update takes as a yes, once trimmed and lowered
YesAnswers == { <<"y">>, <<"y", "e", "s">>, <<"u662f">> }

\* C16: a step of the prompt flow changes package.json, tauri.conf.json or
\* Cargo.toml only when it is taken at the confirmation with an answer that
\* is a yes, and it ends the flow; a menu answer that is no choice leaves the
\* flow at the main menu, an empty or invalid version leaves it at the
\* version prompt, and an answer at the confirmation that is no yes ends the
\* flow, each with the three files as they were; so do the other steps from
\* the main menu and the increment menu.
C16_OnlyConfirmedStepWrites ==
  [][ /\ meta' # meta =>
           /\ prompt = "Confirm"
           /\ prompt' = "Done"
           /\ lower(strip(answer')) \in YesAnswers
      /\ (prompt = "MainMenu" /\ ~ReadRaises(meta)
            /\ strip(answer') \notin {<<"1">>, <<"2">>, <<"3">>}) =>
           (prompt' = "MainMenu" /\ meta' = meta)
      /\ (prompt = "ManualInput"
            /\ (strip(answer') = <<>> \/ ~validate_version(strip(answer')))) =>
           (prompt' = "ManualInput" /\ meta' = meta)
      /\ (prompt = "Confirm" /\ lower(strip(answer')) \notin YesAnswers) =>
           (prompt' = "Done" /\ meta' = meta)
      /\ prompt \in {"MainMenu", "ManualInput", "AutoIncrement"} => meta' = meta
      /\ prompt = "Done" => UNCHANGED vars ]_vars

\* a confirmed update changed the three files, which now hold the version
\* that was typed at the version prompt
C16_Witness ==
  /\ prompt = "Done" /\ result = "updated"
  /\ lower(strip(answer)) \in YesAnswers
  /\ \A f \in DOMAIN meta : meta[f] # meta0[f] /\ meta[f].version = new_version
  /\ validate_version(new_version)
  /\ new_version \in {strip(t) : t \in VersionInputs}

\* C17: when the scan of a line ended at a marker, the quote state handed to
\* the next line is outside any string: it is the state the characters
\* before the marker left, whatever quote characters follow the marker, and
\* whether the line was kept, dropped or cut.
C17_MarkerLeavesNoString ==
  (pc = "scan" /\ i = 2 /\ MarkerFound) =>
    /\ ~in_string
    /\ string_char = None
    /\ in_string = StateAfterChars(j).in_string

\* the scan of a line ended at a marker that an odd number of apostrophes
\* follows; the line was kept and the next line starts outside any string
C17_Witness ==
  /\ pc = "scan" /\ i = 2 /\ MarkerFound
  /\ Cardinality({k \in (j + 1)..Len(lines[2]) : lines[2][k] = "'"}) = 1
  /\ KeptUnchanged(2)
  /\ ~in_string

\* C18: when confirm_and_update has run the updates, with or without an
\* error, the three files all hold the new version or are all as they were.
C18_AllOrNothing ==
  (prompt = "Done" /\ result \in {"updated", "update_failed"}) =>
    \/ \A f \in DOMAIN meta : meta[f].kind = "ok" /\ meta[f].version = new_version
    \/ meta = meta0

====
